---------------------------- MODULE Spec2Model ----------------------------
(***************************************************************************)
(* NE2000 / DP8390 Ethernet driver of xv6-network (eth/ne.c, eth/eth.c).   *)
(*                                                                         *)
(* The driver state is the ne_t structure; the DP8390 is modelled by the   *)
(* registers the driver reads and writes (ISR, BNRY, CURR, the             *)
(* page-select bits of CR), by the receive ring in card RAM and by the     *)
(* transmissions it has been told to start.  Card RAM bytes are named by   *)
(* their card address: a copy out of card RAM is recorded as the card      *)
(* addresses it read, so that two copies agree exactly when they read the  *)
(* same addresses in the same order.                                       *)
(***************************************************************************)
EXTENDS Integers, Sequences, FiniteSets, TLC

(***************************************************************************)
(* Constants of ne.h and net.h (DP8390 data sheet values).                 *)
(***************************************************************************)
DP_PAGESIZE == 256
SENDQ_LEN == 2
SENDQ_PAGES == 6
NE1000_START == 8192
NE1000_SIZE == 8192
NE2000_START == 16384
NE2000_SIZE == 16384
ETH_MIN_SIZE == 60
ETH_MAX_SIZE == 1514
RSR_PRX == 1
\* sizeof(ne_recv_hdr): status, next, rbc0, rbc1
HDR_SIZE == 4
\* the PROM signature byte tested at offsets 14 and 15
PROM_SIGNATURE == 87
\* if (i++ > 10000) in the reset wait of ne_probe
RESET_LIMIT == 10000
\* #define ETH_IPC_SETUP 1
ETH_IPC_SETUP == 1

\* A C uint (32 bits) is held as the int with the same bit pattern, so that
\* (uint)(k - 4) for k < 4 is the negative int k - 4; ULess and ULeq are the
\* unsigned comparisons of two such values.
ULess(a, b) == IF (a < 0) = (b < 0) THEN a < b ELSE b < 0
ULeq(a, b) == a = b \/ ULess(a, b)

\* interrupt status bits, and the ones ne_init unmasks in IMR
ISR_BITS == {"PRX", "PTX", "RXE", "TXE", "OVW", "CNT", "RDC", "RST"}
IMR_BITS == {"PRX", "PTX", "RXE", "TXE", "OVW", "CNT"}

(***************************************************************************)
(* Bounds of the model.                                                    *)
(***************************************************************************)
\* accepted sends per run (sendq_head is an unbounded int in the code)
MaxSends == 4
\* packets stored in the ring and not yet released by the driver
MaxPending == 2
\* accepted sends, and ring pages the chip fills, in the combined specification
DrvSends == 3
DrvPages == 3
StepSends == 3
StepPages == 2
FairSends == 2
FairPages == 1

VARIABLES
    build,   \* which text of the driver is linked: "eth/ne.c" or "part_006"
    pc,      \* bring-up phase: "probe", "init", "run", "notfound"
    prom,    \* the 32 bytes the card answers to the PROM read
    ne,      \* the ne_t structure
    isr,     \* DP8390 interrupt status register, as the set of bits set
    cr_ps,   \* register page selected by the last write of CR
    bnry,    \* DP8390 boundary register
    curr,    \* DP8390 current-page register
    ring,    \* packets the chip stored in the receive ring: page -> header
    txq,     \* transmissions started and not yet finished (slot pages)
    last,    \* the last step: the call, its arguments, return value and effects
    log,     \* port accesses of the last call, in order
    task     \* a call of ne_pio_write or ne_pio_read in progress: where it
             \* stands, its locals, and the port accesses it has made

vars == <<build, pc, prom, ne, isr, cr_ps, bnry, curr, ring, txq, last, log, task>>

Byte == 0..255
Builds == {"eth/ne.c", "part_006"}

(***************************************************************************)
(* ne_t after memset(&ne, 0, sizeof(ne)) in ethinit.                       *)
(***************************************************************************)
ZeroNe ==
    [ is16bit |-> FALSE,
      address |-> [i \in 0..5 |-> 0],
      ramsize |-> 0, startaddr |-> 0, pages |-> 0,
      send_startpage |-> 0, send_stoppage |-> 0,
      recv_startpage |-> 0, recv_stoppage |-> 0,
      sendq |-> [i \in 0..(SENDQ_LEN - 1) |-> [sendpage |-> 0, filled |-> FALSE]],
      sendq_head |-> 0, sendq_tail |-> 0 ]

NoCall == [op |-> "none", ret |-> 0]

\* no call of ne_pio_write or ne_pio_read is in progress
IdleTask ==
    [op |-> "idle", at |-> "none", size |-> 0, q |-> 0, moved |-> FALSE,
     dma |-> "none", c |-> 0, b |-> 0, ret |-> 0, io |-> << >>]

(***************************************************************************)
(* ne_probe: PROM read, bus width, signature, MAC address.                 *)
(***************************************************************************)
\* (mutant of PairsEqual: the loop stops one pair early)
PairsEqualShort(e) == \A i \in 0..14 : e[2 * i] = e[2 * i + 1]

\* is16bit after the read loop: TRUE unless some even/odd pair differs
PairsEqual(e) == \A i \in 0..15 : e[2 * i] = e[2 * i + 1]

\* for (i = 0; i < 16; ++i) eprom[i] = eprom[i * 2];  done in place, in order
RECURSIVE Compact(_, _)
Compact(e, i) ==
    IF i >= 16 THEN e
    ELSE Compact([e EXCEPT ![i] = e[i * 2]], i + 1)

\* the image the signature test and the address copy read
Normalize(e, wide) == IF wide THEN Compact(e, 0) ELSE e

\* (mutant of SignatureOK: only byte 14 is tested)
SignatureOKFirst(e) == ~(e[14] # PROM_SIGNATURE)

\* if (eprom[14] != 0x57 || eprom[15] != 0x57) return FALSE;
SignatureOK(e) == ~(e[14] # PROM_SIGNATURE \/ e[15] # PROM_SIGNATURE)

\* The outcome of ne_probe on structure n for the answers of the device:
\* reg0 the base register, cntr0 the second read of CNTR0, rst whether a
\* poll of ISR saw the reset bit within the limit, e the PROM bytes.
ProbeResult(n, reg0, cntr0, rst, e) ==
    IF reg0 = 255 THEN [found |-> FALSE, ne |-> n, stage |-> "floating"]
    ELSE IF cntr0 # 0 THEN [found |-> FALSE, ne |-> n, stage |-> "presence"]
    ELSE IF ~rst THEN [found |-> FALSE, ne |-> n, stage |-> "reset"]
    ELSE LET wide == PairsEqual(e)
             img  == Normalize(e, wide)
             n1   == [n EXCEPT !.is16bit = wide]
         IN IF ~SignatureOK(img)
            THEN [found |-> FALSE, ne |-> n1, stage |-> "signature", image |-> img]
            ELSE [found |-> TRUE,
                  ne |-> [n1 EXCEPT !.address = [i \in 0..5 |-> img[i]]],
                  stage |-> "found", image |-> img]

(***************************************************************************)
(* ne_init: memory layout and send queue.                                  *)
(***************************************************************************)
\* (mutant of RecvStop: the ring ends one page early)
RecvStopShort(startpage, pages) == startpage + pages - 1

\* ne->recv_stoppage = ne->send_startpage + ne->pages
RecvStop(startpage, pages) == startpage + pages

\* (mutant of SlotPage: the slots are one page apart)
SlotPageDense(startpage, i) == startpage + i

\* ne->sendq[i].sendpage = ne->send_startpage + i * SENDQ_PAGES;
SlotPage(startpage, i) == startpage + i * SENDQ_PAGES

InitLayout(n) ==
    LET ramsize   == IF n.is16bit THEN NE2000_SIZE ELSE NE1000_SIZE
        startaddr == IF n.is16bit THEN NE2000_START ELSE NE1000_START
        startpage == startaddr \div DP_PAGESIZE
        pages     == ramsize \div DP_PAGESIZE
        stoppage  == startpage + SENDQ_PAGES * SENDQ_LEN - 1
    IN [n EXCEPT
          !.ramsize = ramsize, !.startaddr = startaddr,
          !.send_startpage = startpage, !.pages = pages,
          !.send_stoppage = stoppage,
          !.recv_startpage = stoppage + 1,
          !.recv_stoppage = RecvStop(startpage, pages),
          !.sendq = [i \in 0..(SENDQ_LEN - 1) |->
                       [sendpage |-> SlotPage(startpage, i), filled |-> FALSE]],
          !.sendq_head = 0,
          !.sendq_tail = SENDQ_LEN - 1]

(***************************************************************************)
(* PROM images the card may answer with.  A 16-bit card answers every byte *)
(* of its 16-byte PROM twice; an 8-bit card answers 32 consecutive bytes.  *)
(***************************************************************************)
MacA == <<82, 84, 0, 18, 52, 86>>
MacB == <<87, 87, 87, 87, 87, 87>>

\* the 16 PROM bytes: MAC, filler b, signature bytes s14, s15
Prom16(mac, b, s14, s15) ==
    [i \in 0..15 |-> IF i < 6 THEN mac[i + 1]
                     ELSE IF i = 14 THEN s14
                     ELSE IF i = 15 THEN s15 ELSE b]

\* a 16-bit card; flip, when in 0..15, is a pair whose odd byte differs
WideImage(p, flip) ==
    [i \in 0..31 |-> IF i = 2 * flip + 1 THEN (p[i \div 2] + 1) % 256 ELSE p[i \div 2]]

\* an 8-bit card: the PROM bytes, then filler
NarrowImage(p, fill) == [i \in 0..31 |-> IF i < 16 THEN p[i] ELSE fill]

PromBytes == {Prom16(mac, b, s14, s15) :
                 mac \in {MacA, MacB}, b \in {0, PROM_SIGNATURE},
                 s14 \in {PROM_SIGNATURE, 66}, s15 \in {PROM_SIGNATURE, 66}}

PromImages ==
    {WideImage(p, f) : p \in PromBytes, f \in {-1, 0, 3, 7, 15}}
    \cup {NarrowImage(p, fill) : p \in PromBytes, fill \in {0}}

\* the images the run-time specifications start from: one card of each width
GoodWide == WideImage(Prom16(MacA, 0, PROM_SIGNATURE, PROM_SIGNATURE), -1)
GoodNarrow == NarrowImage(Prom16(MacA, 0, PROM_SIGNATURE, PROM_SIGNATURE), 0)

(***************************************************************************)
(* Chip registers after the register sequence of ne_init.                  *)
(***************************************************************************)
EmptyRing == [p \in {} |-> 0]

\* (mutant of ChipAfterInit: CURR is programmed with the boundary page itself)
ChipAfterInitSame(n) ==
    [isr |-> {}, cr_ps |-> 0, bnry |-> n.recv_startpage, curr |-> n.recv_startpage]

ChipAfterInit(n) ==
    [isr |-> {}, cr_ps |-> 0, bnry |-> n.recv_startpage,
     curr |-> n.recv_startpage + 1]

(***************************************************************************)
(* Port accesses.  An entry of log is <<kind, register, value>> with kind  *)
(* "in" or "out" (one byte), "ins" or "outs" (a stream through the data    *)
(* port, value = its first card address and length), or "chip" for an      *)
(* event of the DP8390 that falls between two accesses.                    *)
(***************************************************************************)
In(reg, v) == <<"in", reg, v>>
Out(reg, v) == <<"out", reg, v>>

\* the bits of a byte read from or written to the command register
CrNames(byte) ==
    { b \in {"STP", "STA", "TXP", "DM_RR", "DM_RW", "NO_DMA", "PS_P1", "PS_P2"} :
        LET w == IF b = "STP" THEN 1 ELSE IF b = "STA" THEN 2
                 ELSE IF b = "TXP" THEN 4 ELSE IF b = "DM_RR" THEN 8
                 ELSE IF b = "DM_RW" THEN 16 ELSE IF b = "NO_DMA" THEN 32
                 ELSE IF b = "PS_P1" THEN 64 ELSE 128
        IN (byte \div w) % 2 = 1 }

\* ne_probe: the presence test, up to the second read of CNTR0
PresenceIo(regd, cntr0) ==
    << Out("CR", {"STP", "NO_DMA", "PS_P1"}),
       In("MAR5", regd),
       Out("MAR5", 255),
       Out("CR", {"NO_DMA", "PS_P0"}),
       In("CNTR0", "discarded"),
       In("CNTR0", cntr0) >>

\* outb(ne->base, reg0); outb(ne->base + DP_TCR, regd);
RestoreIo(reg0, regd) == << Out("CR", CrNames(reg0)), Out("TCR", regd) >>

\* ne_probe: the reset pulse and the wait for ISR_RST (rst: it was read set
\* within the limit), then the acknowledgement
ResetIo(rst) ==
    << In("RESET", "pulse"), Out("RESET", "pulse"),
       In("ISR", IF rst THEN {"RST"} ELSE {}) >>
    \o (IF rst THEN << Out("ISR", 255) >> ELSE << >>)

\* ne_probe: seq[] and the 32 reads of the data port
PromIo(e) ==
    << Out("CR", {"NO_DMA", "PS_P0", "STP"}),
       Out("DCR", {"BMS", "8BYTES"}),
       Out("RBCR0", 0), Out("RBCR1", 0),
       Out("RCR", {"MON"}),
       Out("TCR", {"INTERNAL"}),
       Out("ISR", 255),
       Out("IMR", {}),
       Out("RBCR0", 32), Out("RBCR1", 0),
       Out("RSAR0", 0), Out("RSAR1", 0),
       Out("CR", {"PS_P0", "DM_RR", "STA"}) >>
    \o [i \in 1..32 |-> In("DATA", e[i - 1])]

\* (mutant of ProbeIo: the presence test is made before the base register
\* is looked at)
ProbeIoEager(reg0, regd, cntr0, rst, e) ==
    << In("CR", CrNames(reg0)) >> \o PresenceIo(regd, cntr0)

\* the port accesses of ne_probe, in order, up to its return
ProbeIo(reg0, regd, cntr0, rst, e) ==
    << In("CR", CrNames(reg0)) >>
    \o (IF reg0 = 255 THEN << >>
        ELSE PresenceIo(regd, cntr0)
             \o (IF cntr0 # 0 THEN RestoreIo(reg0, regd)
                 ELSE ResetIo(rst) \o (IF rst THEN PromIo(e) ELSE << >>)))

(***************************************************************************)
(* Bring-up actions.                                                       *)
(***************************************************************************)
ne_probe ==
    /\ pc = "probe"
    /\ \E reg0 \in {255, 33, 97}, regd \in {0, 18}, cntr0 \in {0, 1}, rst \in BOOLEAN,
          paged \in BOOLEAN :
         LET r == ProbeResult(ne, reg0, cntr0, rst, prom) IN
           /\ ne' = r.ne
           /\ pc' = IF r.found THEN "init" ELSE "notfound"
           /\ last' = [op |-> "ne_probe", ret |-> IF r.found THEN 1 ELSE 0,
                       stage |-> r.stage, reg0 |-> reg0, regd |-> regd,
                       paged |-> paged,
                       image |-> IF r.stage \in {"signature", "found"} THEN r.image ELSE prom]
           /\ log' = ProbeIo(reg0, regd, cntr0, rst, prom)
    /\ UNCHANGED <<build, prom, isr, cr_ps, bnry, curr, ring, txq, task>>

\* one entry {offset, value} of seq[], as the loop writes it with outb
SeqEntry(offset, value) == <<"out", offset, value>>

\* seq[]: chip stopped, data configuration, monitor mode, loopback, the ring
\* registers, status cleared, interrupts unmasked
SeqStopped(n) ==
    << SeqEntry("CR", {"PS_P0", "STP", "NO_DMA"}),
       SeqEntry("DCR", {IF n.is16bit THEN "WORDWIDE" ELSE "BYTEWIDE",
                        "LTLENDIAN", "8BYTES", "BMS"}),
       SeqEntry("RCR", {"MON"}),
       SeqEntry("RBCR0", 0), SeqEntry("RBCR1", 0),
       SeqEntry("TCR", {"INTERNAL"}),
       SeqEntry("PSTART", n.recv_startpage),
       SeqEntry("PSTOP", n.recv_stoppage),
       SeqEntry("BNRY", n.recv_startpage),
       SeqEntry("ISR", 255),
       SeqEntry("IMR", IMR_BITS) >>

\* DP_PAR0..DP_PAR5 and DP_MAR0..DP_MAR7
PAR == <<"PAR0", "PAR1", "PAR2", "PAR3", "PAR4", "PAR5">>
MAR == <<"MAR0", "MAR1", "MAR2", "MAR3", "MAR4", "MAR5", "MAR6", "MAR7">>

\* seq[]: page 1, station address, multicast filter, CURR
SeqPage1(n) ==
    << SeqEntry("CR", {"PS_P1", "NO_DMA"}) >>
    \o [i \in 1..6 |-> SeqEntry(PAR[i], n.address[i - 1])]
    \o [i \in 1..8 |-> SeqEntry(MAR[i], 255)]
    \o << SeqEntry("CURR", n.recv_startpage + 1) >>

\* seq[]: start, transmitter normal, receiver promiscuous
SeqStarted(n) ==
    << SeqEntry("CR", {"STA", "NO_DMA"}),
       SeqEntry("TCR", {"NORMAL"}),
       SeqEntry("RCR", {"PRO"}) >>

\* (mutant of InitSeq: the chip is started before page 1 is programmed)
InitSeqEarlyStart(n) == SeqStopped(n) \o SeqStarted(n) \o SeqPage1(n)

\* the register writes of ne_init, in the order of seq[]
InitSeq(n) == SeqStopped(n) \o SeqPage1(n) \o SeqStarted(n)

ne_init ==
    /\ pc = "init"
    /\ LET n == InitLayout(ne)
           c == ChipAfterInit(n)
       IN /\ ne' = n
          /\ isr' = c.isr /\ cr_ps' = c.cr_ps /\ bnry' = c.bnry
          /\ curr' = c.curr
    /\ pc' = "run"
    /\ last' = [op |-> "ne_init", ret |-> 0]
    /\ log' = InitSeq(InitLayout(ne))
    /\ UNCHANGED <<build, prom, ring, txq, task>>

InitProbe ==
    /\ build \in Builds
    /\ pc = "probe"
    /\ prom \in PromImages
    /\ ne = ZeroNe
    /\ isr = {} /\ cr_ps = 0 /\ bnry = 0 /\ curr = 0
    /\ ring = EmptyRing /\ txq = <<>>
    /\ last = NoCall
    /\ log = <<>>
    /\ task = IdleTask

NextProbe == ne_probe \/ ne_init

SpecProbe == InitProbe /\ [][NextProbe]_vars

\* ne_start_xmit
StartXmit(page, size) ==
    << Out("TPSR", page),
       Out("TBCR0", size % 256),
       Out("TBCR1", (size \div 256) % 256),
       Out("CR", {"PS_P0", "NO_DMA", "STA", "TXP"}) >>

\* (mutant of RdmaProgram: the command register is written first)
RdmaProgramCrFirst(mode, addr, size) ==
    << Out("CR", {mode, "PS_P0", "STA"}),
       Out("RSAR0", addr % 256),
       Out("RSAR1", (addr \div 256) % 256),
       Out("RBCR0", size % 256),
       Out("RBCR1", (size \div 256) % 256) >>

\* the tail of ne_rdma_setup, common to both modes
RdmaProgram(mode, addr, size) ==
    << Out("RSAR0", addr % 256),
       Out("RSAR1", (addr \div 256) % 256),
       Out("RBCR0", size % 256),
       Out("RBCR1", (size \div 256) % 256),
       Out("CR", {mode, "PS_P0", "STA"}) >>

\* ne_getblock: remote read of size bytes at card address addr
GetBlock(addr, size) ==
    RdmaProgram("DM_RR", addr, size) \o << <<"ins", "DATA", [addr |-> addr, size |-> size]>> >>

\* ne_rdma_setup: in write mode the CRDA snapshot, the dummy read of the
\* four bytes below startaddr and the poll of CRDA come first.  The dummy
\* read ends at startaddr, where no other remote DMA of the driver ends, so
\* the first poll reads a value that differs from the snapshot.
RdmaSetup(n, mode, addr, size) ==
    (IF mode = "DM_RW"
     THEN << In("CRDA0", "old"), In("CRDA1", "old") >>
          \o GetBlock(n.startaddr - 4, 4)
          \o << <<"chip", "RDC", "read">> >>
          \o << In("CRDA0", "new"), In("CRDA1", "new") >>
     ELSE << >>)
    \o RdmaProgram(mode, addr, size)

(***************************************************************************)
(* The reset wait of ne_probe, one poll of ISR per step:                   *)
(*   eth/ne.c:   while (!(inb(ISR) & ISR_RST)) { if (i++ > 10000) return FALSE; } *)
(*   part_006:   while (inb(ISR) == 0)         { if (j++ > 10000) return FALSE; } *)
(***************************************************************************)
\* what a poll of ISR may read
ResetAnswers == { {}, {"RST"}, {"RDC"} }

\* the loop condition is false: the wait ends and the probe goes on
ResetSeen(b, status) ==
    IF b = "eth/ne.c" THEN "RST" \in status ELSE status # {}

\* the presence test passed; the reset port is read and written back
reset_begin ==
    /\ pc = "probe"
    /\ pc' = "reset"
    /\ last' = [op |-> "reset_wait", ret |-> 0, i |-> 0, polls |-> 0, status |-> {}]
    /\ log' = << In("RESET", "v"), Out("RESET", "v") >>
    /\ UNCHANGED <<build, prom, ne, isr, cr_ps, bnry, curr, ring, txq, task>>

\* one evaluation of the loop condition and, when it holds, of the body
reset_poll ==
    /\ pc = "reset"
    /\ \E status \in ResetAnswers :
         /\ last' = [last EXCEPT !.polls = @ + 1, !.status = status,
                                 !.i = IF ResetSeen(build, status) THEN @ ELSE @ + 1]
         /\ pc' = IF ResetSeen(build, status) THEN "prom"
                  ELSE IF last.i > RESET_LIMIT THEN "notfound"
                  ELSE "reset"
         /\ log' = << In("ISR", status) >>
    /\ UNCHANGED <<build, prom, ne, isr, cr_ps, bnry, curr, ring, txq, task>>

\* the rest of ne_probe: ISR cleared, PROM read, width, signature, address
probe_prom ==
    /\ pc = "prom"
    /\ LET r == ProbeResult(ne, 33, 0, TRUE, prom) IN
         /\ ne' = r.ne
         /\ pc' = IF r.found THEN "init" ELSE "notfound"
         /\ last' = [op |-> "ne_probe", ret |-> IF r.found THEN 1 ELSE 0,
                     stage |-> r.stage, image |-> r.image]
    /\ log' = << Out("ISR", 255) >>
    /\ UNCHANGED <<build, prom, isr, cr_ps, bnry, curr, ring, txq, task>>

InitReset == InitProbe /\ prom = GoodWide

NextReset == reset_begin \/ reset_poll \/ probe_prom

SpecReset == InitReset /\ [][NextReset]_vars

(***************************************************************************)
(* ethinit: the scan of the candidate ports.                               *)
(***************************************************************************)
\* int ports[] = {0x300, 0xC100, 0x240, 0x280, 0x320, 0x340, 0x360};
Ports == <<768, 49408, 576, 640, 800, 832, 864>>

\* a doubled image without the signature
BadWide == WideImage(Prom16(MacA, 0, 66, 66), -1)

\* what may sit at a port: nothing (the bus floats), a chip that never
\* leaves reset, a card without the signature, a card
Devices ==
    { [reg0 |-> 255, cntr0 |-> 0, rst |-> TRUE,  prom |-> GoodWide],
      [reg0 |-> 33,  cntr0 |-> 0, rst |-> FALSE, prom |-> GoodWide],
      [reg0 |-> 33,  cntr0 |-> 0, rst |-> TRUE,  prom |-> BadWide],
      [reg0 |-> 33,  cntr0 |-> 0, rst |-> TRUE,  prom |-> GoodWide] }

\* (mutant of ScanPorts: the break after a successful probe is missing)
RECURSIVE ScanPortsNoBreak(_, _, _, _)
ScanPortsNoBreak(i, dev, n, calls) ==
    IF i > Len(Ports) THEN [ne |-> n, calls |-> calls, found |-> FALSE, port |-> 0]
    ELSE LET r == ProbeResult(ZeroNe, dev[i].reg0, dev[i].cntr0, dev[i].rst, dev[i].prom)
             c == Append(calls, <<"ne_probe", Ports[i], IF r.found THEN 1 ELSE 0>>)
         IN IF r.found
            THEN ScanPortsNoBreak(i + 1, dev, InitLayout(r.ne),
                     c \o << <<"ne_init", Ports[i], 0>>, <<"picenable", "IRQ_ETH", 0>>,
                             <<"ioapicenable", "IRQ_ETH", 0>> >>)
            ELSE ScanPortsNoBreak(i + 1, dev, r.ne, c)

\* the loop of ethinit from port i on: n is ne, calls the calls made so far
RECURSIVE ScanPorts(_, _, _, _)
ScanPorts(i, dev, n, calls) ==
    IF i > Len(Ports) THEN [ne |-> n, calls |-> calls, found |-> FALSE, port |-> 0]
    ELSE LET r == ProbeResult(ZeroNe, dev[i].reg0, dev[i].cntr0, dev[i].rst, dev[i].prom)
             c == Append(calls, <<"ne_probe", Ports[i], IF r.found THEN 1 ELSE 0>>)
         IN IF r.found
            THEN [ne |-> InitLayout(r.ne),
                  calls |-> c \o << <<"ne_init", Ports[i], 0>>, <<"picenable", "IRQ_ETH", 0>>,
                                    <<"ioapicenable", "IRQ_ETH", 0>> >>,
                  found |-> TRUE, port |-> i]
            ELSE ScanPorts(i + 1, dev, r.ne, c)

\* ethinit, for the devices dev[1..7] at the seven ports
ethinit ==
    /\ pc = "boot"
    /\ \E dev \in [1..Len(Ports) -> Devices] :
         LET r == ScanPorts(1, dev, ne, << >>) IN
           /\ ne' = r.ne
           /\ pc' = IF r.found THEN "run" ELSE "notfound"
           /\ prom' = IF r.found THEN dev[r.port].prom ELSE prom
           /\ isr' = IF r.found THEN ChipAfterInit(r.ne).isr ELSE isr
           /\ cr_ps' = IF r.found THEN ChipAfterInit(r.ne).cr_ps ELSE cr_ps
           /\ bnry' = IF r.found THEN ChipAfterInit(r.ne).bnry ELSE bnry
           /\ curr' = IF r.found THEN ChipAfterInit(r.ne).curr ELSE curr
           /\ last' = [op |-> "ethinit", ret |-> 0, calls |-> r.calls,
                       good |-> {i \in 1..Len(Ports) :
                                   dev[i].reg0 # 255 /\ dev[i].rst /\ dev[i].prom = GoodWide}]
    /\ log' = << >>
    /\ UNCHANGED <<build, ring, txq, task>>

\* before ethinit: the static ne is zero, no port has been touched
InitBoot ==
    /\ build \in Builds
    /\ pc = "boot"
    /\ prom = GoodWide
    /\ ne = ZeroNe
    /\ isr = {} /\ cr_ps = 0 /\ bnry = 0 /\ curr = 0
    /\ ring = EmptyRing /\ txq = << >>
    /\ last = NoCall
    /\ log = << >>
    /\ task = IdleTask

NextBoot == ethinit

SpecBoot == InitBoot /\ [][NextBoot]_vars

(***************************************************************************)
(* Send queue.                                                             *)
(***************************************************************************)
AllFilled(n) == \A i \in 0..(SENDQ_LEN - 1) : n.sendq[i].filled

\* (mutant of SendBusy: the busy test is missing)
SendBusyNever(n) == FALSE

\* (mutant of SendBusy: the queue is taken for full one send early)
SendBusyEarly(n) ==
    n.sendq[n.sendq_head % SENDQ_LEN].filled \/ n.sendq_head >= n.sendq_tail

\* if (ne->sendq[q].filled || ne->sendq_head > ne->sendq_tail) return 0;
SendBusy(n) ==
    n.sendq[n.sendq_head % SENDQ_LEN].filled \/ n.sendq_head > n.sendq_tail

\* The completion gate of ne_pio_write, present in the part_006 text only:
\* while ((inb(ISR) & ISR_RDC) == 0) ;  -- the reads it makes when ISR holds
\* status at the first read (a wait for the chip ends with RDC read set).
RdcGate(b, status) ==
    IF b = "part_006"
    THEN IF "RDC" \in status THEN << In("ISR", status) >>
         ELSE << In("ISR", status), <<"chip", "RDC", "write">>, In("ISR", status \cup {"RDC"}) >>
    ELSE << >>

\* (mutant of BusyReturn: the busy test comes after the remote DMA setup)
BusyReturnLate(n) ==
    [ne |-> n,
     log |-> RdmaSetup(n, "DM_RW",
                 n.sendq[n.sendq_head % SENDQ_LEN].sendpage * DP_PAGESIZE, 0)]

\* the busy return of ne_pio_write: the structure and the port accesses it
\* leaves behind (cprintf and return 0 are all it does)
BusyReturn(n) == [ne |-> n, log |-> << >>]

\* ne_pio_write of size bytes.  early: the chip finishes the remote write
\* before the driver's next port access; otherwise it finishes after the
\* driver has gone on.
ne_pio_write(size, early) ==
    /\ pc = "run"
    /\ IF SendBusy(ne)
       THEN /\ last' = [op |-> "ne_pio_write", ret |-> 0, size |-> size,
                        full |-> AllFilled(ne)]
            /\ log' = BusyReturn(ne).log
            /\ ne' = BusyReturn(ne).ne
            /\ UNCHANGED <<isr, txq>>
       ELSE LET q      == ne.sendq_head % SENDQ_LEN
                page   == ne.sendq[q].sendpage
                addr   == page * DP_PAGESIZE
                st1    == isr \cup {"RDC"}
                gate   == RdcGate(build, st1)
                waited == Len(gate) > 1
                done   == early \/ waited
            IN /\ ne.sendq_head < MaxSends
               /\ log' = RdmaSetup(ne, "DM_RW", addr, size)
                         \o << <<"outs", "DATA", [addr |-> addr, size |-> size]>> >>
                         \o (IF early /\ ~waited THEN << <<"chip", "RDC", "write">> >> ELSE << >>)
                         \o gate
                         \o StartXmit(page, size)
                         \o (IF done THEN << >> ELSE << <<"chip", "RDC", "write">> >>)
               /\ ne' = [ne EXCEPT !.sendq[q].filled = TRUE,
                                   !.sendq_head = ne.sendq_head + 1]
               /\ isr' = isr \cup {"RDC"}
               /\ txq' = Append(txq, [page |-> page, ready |-> done])
               /\ last' = [op |-> "ne_pio_write", ret |-> size, size |-> size,
                           full |-> AllFilled(ne)]
    /\ UNCHANGED <<build, pc, prom, cr_ps, bnry, curr, ring, task>>

\* The chip ends the oldest transmission, with PTX or with TXE status.
ChipTxDone(bit) ==
    /\ pc = "run"
    /\ txq # << >>
    /\ txq' = Tail(txq)
    /\ isr' = isr \cup {bit}
    /\ last' = [op |-> "chip_tx_done", ret |-> 0]
    /\ log' = << >>
    /\ UNCHANGED <<build, pc, prom, ne, cr_ps, bnry, curr, ring, task>>

\* (mutant of Retire: the whole slot is zeroed, its page number included)
RetireZeroSlot(n) ==
    [n EXCEPT !.sendq_tail = n.sendq_tail + 1,
              !.sendq[(n.sendq_tail + 1) % SENDQ_LEN] = [sendpage |-> 0, filled |-> FALSE]]

\* (mutant of Retire: the tail advances, no flag is cleared)
RetireNoClear(n) == [n EXCEPT !.sendq_tail = n.sendq_tail + 1]

\* (mutant of Retire: the slot at the old tail is cleared)
RetireOld(n) ==
    [n EXCEPT !.sendq_tail = n.sendq_tail + 1,
              !.sendq[n.sendq_tail % SENDQ_LEN].filled = FALSE]

\* (mutant of Retire: the handler also pulls head back to the new tail)
RetireRewind(n) ==
    [n EXCEPT !.sendq_tail = n.sendq_tail + 1,
              !.sendq[(n.sendq_tail + 1) % SENDQ_LEN].filled = FALSE,
              !.sendq_head = n.sendq_tail + 1]

\* ne->sendq_tail++; ne->sendq[ne->sendq_tail % SENDQ_LEN].filled = FALSE;
Retire(n) ==
    [n EXCEPT !.sendq_tail = n.sendq_tail + 1,
              !.sendq[(n.sendq_tail + 1) % SENDQ_LEN].filled = FALSE]

\* the status bits a byte read at the ISR offset holds
IsrNames(byte) ==
    { b \in ISR_BITS :
        LET w == IF b = "PRX" THEN 1 ELSE IF b = "PTX" THEN 2
                 ELSE IF b = "RXE" THEN 4 ELSE IF b = "TXE" THEN 8
                 ELSE IF b = "OVW" THEN 16 ELSE IF b = "CNT" THEN 32
                 ELSE IF b = "RDC" THEN 64 ELSE 128
        IN (byte \div w) % 2 = 1 }

\* (mutant of Retires: a slot is retired on any status)
RetiresAlways(status) == TRUE

\* (mutant of Retires: a transmit error retires a slot as well)
RetiresOnError(status) == "PTX" \in status \/ "TXE" \in status

\* if (isr & ISR_PTX)
Retires(status) == "PTX" \in status

\* (mutant of HandlerIo: on PRX the handler moves the boundary itself)
HandlerIoDequeue(page, status, c) ==
    << In("ISR", status), Out("ISR", status) >>
    \o (IF "PRX" \in status THEN << Out("BNRY", c) >> ELSE << >>)
    \o << In("ISR", {}) >>

\* (mutant of HandlerIo: the handler sets up a remote write of its own)
HandlerIoWrites(page, status, c) ==
    << In("ISR", status), Out("ISR", status) >>
    \o RdmaProgram("DM_RW", c * DP_PAGESIZE, HDR_SIZE)
    \o << In("ISR", {}) >>

\* the port accesses of ne_interrupt: with page 0 selected the status read,
\* its write-back and the read of zero that ends the loop; with page 1
\* selected one pass of the loop on CURR (c)
HandlerIo(page, status, c) ==
    IF page = 0
    THEN << In("ISR", status), Out("ISR", status), In("ISR", {}) >>
    ELSE << In("CURR", c), Out("CURR", c) >>

\* ne_interrupt, entered when an unmasked status bit is set: it reads ISR,
\* writes the value back, handles PTX and PRX, and leaves on reading zero.
\* DP_ISR and DP_CURR are the same offset on pages 0 and 1: with page 1
\* selected the reads return CURR, which is never zero, the write-back goes
\* to CURR, and the loop does not end; every pass retires a slot when the
\* byte has the ISR_PTX bit.
ne_interrupt ==
    /\ pc = "run"
    /\ isr \cap IMR_BITS # {}
    /\ IF cr_ps = 0
       THEN /\ log' = HandlerIo(cr_ps, isr, curr)
            /\ isr' = {}
            /\ ne' = IF Retires(isr) THEN Retire(ne) ELSE ne
            /\ last' = [op |-> "ne_interrupt", ret |-> 0, status |-> isr,
                        full |-> AllFilled(ne)]
            /\ pc' = pc
       ELSE /\ log' = HandlerIo(cr_ps, isr, curr)
            /\ isr' = isr
            /\ ne' = IF Retires(IsrNames(curr)) THEN Retire(ne) ELSE ne
            /\ last' = [op |-> "ne_interrupt", ret |-> 0, status |-> IsrNames(curr),
                        full |-> AllFilled(ne)]
            /\ pc' = "hang"
    /\ UNCHANGED <<build, prom, cr_ps, bnry, curr, ring, txq, task>>

(***************************************************************************)
(* Receive ring.  The chip stores a packet at CURR: a 4-byte header        *)
(* (status, next, byte count including the header) and then the payload,   *)
(* continuing at recv_startpage when it reaches recv_stoppage.             *)
(***************************************************************************)
RingPages(n) == n.recv_stoppage - n.recv_startpage

\* pages a stored packet of cnt bytes (header included) takes
PagesFor(cnt) == IF cnt <= DP_PAGESIZE THEN 1 ELSE (cnt + DP_PAGESIZE - 1) \div DP_PAGESIZE

\* a page number or card address brought back into the ring
WrapPage(n, p) == IF p >= n.recv_stoppage THEN p - RingPages(n) ELSE p
WrapAddr(n, a) ==
    IF a >= n.recv_stoppage * DP_PAGESIZE THEN a - RingPages(n) * DP_PAGESIZE ELSE a

\* card address of byte i of the payload of the packet stored at page
PayloadAddr(n, page, i) == WrapAddr(n, page * DP_PAGESIZE + HDR_SIZE + i)

\* pages the chip may fill before it meets the boundary page
FreePages(n) == (bnry - curr + RingPages(n)) % RingPages(n)

\* The chip stores a packet whose header carries status and byte count cnt.
ChipReceive(status, cnt) ==
    /\ pc = "run"
    /\ Cardinality(DOMAIN ring) < MaxPending
    /\ PagesFor(cnt) <= FreePages(ne)
    /\ LET next == WrapPage(ne, curr + PagesFor(cnt)) IN
         /\ ring' = [p \in DOMAIN ring \cup {curr} |->
                       IF p = curr THEN [status |-> status, next |-> next, rbc |-> cnt]
                       ELSE ring[p]]
         /\ curr' = next
    /\ isr' = isr \cup {IF status % 2 = RSR_PRX THEN "PRX" ELSE "RXE"}
    /\ last' = [op |-> "chip_receive", ret |-> 0]
    /\ log' = << >>
    /\ UNCHANGED <<build, pc, prom, ne, cr_ps, bnry, txq, task>>

\* the four bytes ne_getblock reads at the head of page
HeaderAt(page) ==
    IF page \in DOMAIN ring THEN ring[page]
    ELSE [status |-> 0, next |-> 0, rbc |-> 0]

\* (mutant of Candidate: the wrap at recv_stoppage is missing)
CandidateNoWrap(n, b) == b + 1

\* page = bnry + 1; if (page == ne->recv_stoppage) page = ne->recv_startpage;
Candidate(n, b) == IF b + 1 = n.recv_stoppage THEN n.recv_startpage ELSE b + 1

\* pktsize = (header.rbc0 | (header.rbc1 << 8)) - sizeof(header), a uint
PktSize(h) == ((h.rbc % 256) + ((h.rbc \div 256) % 256) * 256) - HDR_SIZE

\* (mutant of BadPacket: the receive status is not tested)
BadPacketNoStatus(h) ==
    ULess(PktSize(h), ETH_MIN_SIZE) \/ ULess(ETH_MAX_SIZE, PktSize(h))

\* (mutant of BadPacket: the upper limit is compared as a signed int)
BadPacketSignedMax(h) ==
    \/ ULess(PktSize(h), ETH_MIN_SIZE)
    \/ PktSize(h) > ETH_MAX_SIZE
    \/ h.status % 2 = 0

\* pktsize < ETH_MIN_SIZE || pktsize > ETH_MAX_SIZE || (header.status & RSR_PRX) == 0
BadPacket(h) ==
    \/ ULess(PktSize(h), ETH_MIN_SIZE)
    \/ ULess(ETH_MAX_SIZE, PktSize(h))
    \/ h.status % 2 = 0

\* The ne_getblock calls that copy the payload: each is the card address it
\* starts at, the bytes it reads and the offset in buf it writes to.
PayloadCopies(n, page, pktsize) ==
    LET remain == (n.recv_stoppage - page) * DP_PAGESIZE IN
    IF ULess(remain, pktsize)
    THEN << [addr |-> page * DP_PAGESIZE + HDR_SIZE, size |-> remain, dst |-> 0],
            [addr |-> n.recv_startpage * DP_PAGESIZE, size |-> pktsize - remain, dst |-> remain] >>
    ELSE << [addr |-> page * DP_PAGESIZE + HDR_SIZE, size |-> pktsize, dst |-> 0] >>

\* (mutant of NewBoundary: the boundary is set to the next packet's page)
NewBoundaryNext(n, h) ==
    IF ULess(h.next, n.recv_startpage) THEN n.recv_stoppage - 1 ELSE h.next % 256

\* (mutant of NewBoundary: the underflow below recv_startpage is not mended)
NewBoundaryNoWrap(n, h) == (h.next - 1) % 256

\* (mutant of NewBoundary: the mended value is written whatever next is)
NewBoundaryTop(n, h) == n.recv_stoppage - 1

\* bnry = header.next - 1; the byte written to BNRY
NewBoundary(n, h) ==
    IF ULess(h.next - 1, n.recv_startpage) THEN n.recv_stoppage - 1 ELSE (h.next - 1) % 256

\* (mutant of BufferFits: the null test is missing)
BufferFitsNoNull(bufnull, bufsize, pktsize) == ULeq(pktsize, bufsize)

\* if (buf != 0 && (uint)bufsize >= pktsize)
BufferFits(bufnull, bufsize, pktsize) == ~bufnull /\ ULeq(pktsize, bufsize)

RECURSIVE CopyLog(_, _)
CopyLog(copies, k) ==
    IF k > Len(copies) THEN << >>
    ELSE GetBlock(copies[k].addr, copies[k].size) \o CopyLog(copies, k + 1)

\* The outcome of ne_pio_read with the registers reading c (CURR) and b (BNRY):
\* the value returned, the copies made into buf, the byte written to BNRY
\* (-1: none), and the port accesses.
PioRead(n, c, b, bufnull, bufsize) ==
    LET page    == Candidate(n, b)
        regs    == << Out("CR", {"PS_P1"}), In("CURR", c),
                      Out("CR", {"PS_P0", "NO_DMA", "STA"}), In("BNRY", b) >>
        h       == HeaderAt(page)
        hdrio   == GetBlock(page * DP_PAGESIZE, HDR_SIZE)
        pktsize == PktSize(h)
        base    == [page |-> page, hdr |-> FALSE, copies |-> << >>, bnry |-> -1]
    IN IF page = c
       THEN [base EXCEPT !.page = page] @@ [ret |-> 0, io |-> regs]
       ELSE IF BadPacket(h)
       THEN [base EXCEPT !.hdr = TRUE] @@ [ret |-> -1, io |-> regs \o hdrio]
       ELSE IF BufferFits(bufnull, bufsize, pktsize)
       THEN LET copies == PayloadCopies(n, page, pktsize)
                nb     == NewBoundary(n, h)
            IN [base EXCEPT !.hdr = TRUE, !.copies = copies, !.bnry = nb]
               @@ [ret |-> pktsize,
                   io |-> regs \o hdrio \o CopyLog(copies, 1) \o << Out("BNRY", nb) >>]
       ELSE [base EXCEPT !.hdr = TRUE] @@ [ret |-> pktsize, io |-> regs \o hdrio]

\* ne_pio_read(ne, buf, bufsize); bufnull: buf == 0
ne_pio_read(bufnull, bufsize) ==
    /\ pc = "run"
    /\ LET r == PioRead(ne, curr, bnry, bufnull, bufsize) IN
         /\ last' = [op |-> "ne_pio_read", ret |-> r.ret, bufnull |-> bufnull,
                     bufsize |-> bufsize, page |-> r.page, copies |-> r.copies,
                     hdr |-> HeaderAt(r.page), empty |-> (r.page = curr),
                     bnry_old |-> bnry, bnry_out |-> r.bnry]
         /\ log' = r.io
         /\ bnry' = IF r.bnry >= 0 THEN r.bnry ELSE bnry
         /\ ring' = IF r.bnry >= 0 THEN [p \in DOMAIN ring \ {r.page} |-> ring[p]] ELSE ring
         /\ isr' = IF r.hdr THEN isr \cup {"RDC"} ELSE isr
    /\ UNCHANGED <<build, pc, prom, ne, cr_ps, curr, txq, task>>

(***************************************************************************)
(* Specifications.  The run-time specifications start from the state that  *)
(* ne_probe and ne_init leave for a card of either width.                  *)
(***************************************************************************)
InitRun ==
    /\ build \in Builds
    /\ pc = "run"
    /\ prom \in {GoodWide, GoodNarrow}
    /\ ne = InitLayout(ProbeResult(ZeroNe, 33, 0, TRUE, prom).ne)
    /\ isr = ChipAfterInit(ne).isr
    /\ cr_ps = ChipAfterInit(ne).cr_ps
    /\ bnry = ChipAfterInit(ne).bnry
    /\ curr = ChipAfterInit(ne).curr
    /\ ring = EmptyRing /\ txq = << >>
    /\ last = [op |-> "ne_init", ret |-> 0]
    /\ log = << >>
    /\ task = IdleTask

TxSizes == {ETH_MIN_SIZE, ETH_MAX_SIZE}

\* transmit path: sends, the chip ending transmissions, the interrupt handler
NextTx ==
    \/ \E size \in TxSizes, early \in BOOLEAN : ne_pio_write(size, early)
    \/ \E bit \in {"PTX", "TXE"} : ChipTxDone(bit)
    \/ ne_interrupt

SpecTx == InitRun /\ [][NextTx]_vars

\* The chip ends a transmission only when the handler has served the
\* status of the one before: an interrupt runs after each.
ChipTxDoneServed == \E bit \in {"PTX", "TXE"} : isr \cap IMR_BITS = {} /\ ChipTxDone(bit)

SendAny == \E size \in TxSizes : ne_pio_write(size, TRUE)

NextTxServed == SendAny \/ ChipTxDoneServed \/ ne_interrupt

\* the chip finishes what it was told to start, the handler runs when a
\* status is pending, the caller keeps sending
SpecTxServed ==
    /\ InitRun /\ [][NextTxServed]_vars
    /\ WF_vars(ChipTxDoneServed) /\ WF_vars(ne_interrupt) /\ WF_vars(SendAny)

\* packets the chip stores: <<status, byte count>>
RxKinds ==
    { <<1, 64>>, <<1, 256>>, <<1, 257>>, <<1, 1518>>,
      <<0, 64>>, <<1, 63>>, <<1, 1519>>, <<1, 2>> }

\* buffers a caller passes: <<buf == 0, bufsize>>
RxBuffers == { <<TRUE, 2048>>, <<FALSE, 64>>, <<FALSE, 2048>> }

\* receive path: the chip storing packets, and reads
NextRx ==
    \/ \E k \in RxKinds : ChipReceive(k[1], k[2])
    \/ \E b \in RxBuffers : ne_pio_read(b[1], b[2])

\* ne_pio_read is the same in both texts of the driver
InitRx == InitRun /\ build = "eth/ne.c"

SpecRx == InitRx /\ [][NextRx]_vars

\* The caller keeps reading: with any buffer, and with a buffer that holds
\* the largest frame.
SpecRxFair ==
    /\ InitRx /\ [][NextRx]_vars
    /\ WF_vars(\E b \in RxBuffers : ne_pio_read(b[1], b[2]))
    /\ WF_vars(ne_pio_read(FALSE, 2048))

(***************************************************************************)
(* ethioctl, and the driver's four entry points together.                  *)
(***************************************************************************)
\* switch (request) { case ETH_IPC_SETUP: panic(...); default: return -1; }
\* panic does not return: the kernel stops.
ethioctl(request) ==
    /\ pc = "run"
    /\ IF request = ETH_IPC_SETUP
       THEN /\ pc' = "panic"
            /\ last' = [op |-> "ethioctl", ret |-> 0, request |-> request,
                        returned |-> FALSE]
       ELSE /\ pc' = pc
            /\ last' = [op |-> "ethioctl", ret |-> -1, request |-> request,
                        returned |-> TRUE]
    /\ log' = << >>
    /\ UNCHANGED <<build, prom, ne, isr, cr_ps, bnry, curr, ring, txq, task>>

\* request codes a caller passes
Requests == {0, ETH_IPC_SETUP, 2}

\* packets and buffers of the combined specification
DrvKinds == { <<1, 64>>, <<0, 64>> }
DrvBuffers == { <<TRUE, 2048>>, <<FALSE, 2048>> }

InitDrv == InitRun /\ build = "eth/ne.c"

\* the four entry points and the chip, with fewer inputs than NextTx, NextRx
NextDrv ==
    \/ (ne.sendq_head < DrvSends \/ SendBusy(ne)) /\ ne_pio_write(ETH_MIN_SIZE, TRUE)
    \/ \E bit \in {"PTX", "TXE"} : ChipTxDone(bit)
    \/ ne_interrupt
    \/ \E k \in DrvKinds : curr < ne.recv_startpage + DrvPages /\ ChipReceive(k[1], k[2])
    \/ \E b \in DrvBuffers : ne_pio_read(b[1], b[2])
    \/ \E r \in Requests : ethioctl(r)

SpecDrv == InitDrv /\ [][NextDrv]_vars

(***************************************************************************)
(* The packet header as bytes: what the chip stores and what ne_pio_read   *)
(* makes of it.                                                            *)
(***************************************************************************)
\* the four bytes at the start of a packet: status, next, rbc0, rbc1
HdrBytes(h) == << h.status, h.next, h.rbc % 256, (h.rbc \div 256) % 256 >>

\* (mutant of HdrDecode: the count bytes are taken high byte first)
HdrDecodeSwapped(b) ==
    [status |-> b[1], next |-> b[2], rbc |-> b[4] + b[3] * 256]

\* header.status, header.next, header.rbc0 | (header.rbc1 << 8)
HdrDecode(b) ==
    [status |-> b[1], next |-> b[2], rbc |-> b[3] + b[4] * 256]

\* headers the round trip is computed for: every byte count, two
\* status/next pairs
HdrInputs ==
    { [status |-> sn[1], next |-> sn[2], rbc |-> c] :
        sn \in { <<1, 45>>, <<254, 63>> }, c \in 0..65535 }

\* ne_getblock of the header, and the decoding of ne_pio_read
header_read ==
    /\ last.op = "header_stored"
    /\ last' = [op |-> "header_read", ret |-> 0, hdr |-> last.hdr,
                bytes |-> HdrBytes(last.hdr),
                decoded |-> HdrDecode(HdrBytes(last.hdr)),
                pktsize |-> PktSize(HdrDecode(HdrBytes(last.hdr)))]
    /\ log' = GetBlock(bnry * DP_PAGESIZE, HDR_SIZE)
    /\ UNCHANGED <<build, pc, prom, ne, isr, cr_ps, bnry, curr, ring, txq, task>>

InitHdr ==
    /\ build = "eth/ne.c"
    /\ pc = "run"
    /\ prom = GoodNarrow
    /\ ne = InitLayout(ProbeResult(ZeroNe, 33, 0, TRUE, prom).ne)
    /\ isr = {} /\ cr_ps = 0
    /\ bnry = ChipAfterInit(ne).bnry
    /\ curr = ChipAfterInit(ne).curr
    /\ ring = EmptyRing /\ txq = << >>
    /\ \E h \in HdrInputs : last = [op |-> "header_stored", ret |-> 0, hdr |-> h]
    /\ log = << >>
    /\ task = IdleTask

NextHdr == header_read

SpecHdr == InitHdr /\ [][NextHdr]_vars

(***************************************************************************)
(* ne_pio_write and ne_pio_read one port access at a time.  The driver     *)
(* does not mask interrupts: ne_interrupt and the chip's events may come   *)
(* between any two steps of a call.  The handler itself runs to its end    *)
(* before the interrupted call goes on.                                    *)
(***************************************************************************)
Doing(op, at) == pc = "run" /\ task.op = op /\ task.at = at

\* the call returns ret
Return(ret) == [task EXCEPT !.op = "idle", !.at = "none", !.ret = ret]

\* the port accesses acc are made and the call moves to at
Step(at, acc) == [task EXCEPT !.at = at, !.io = @ \o acc]

\* int q = ne->sendq_head % SENDQ_LEN;
SendSlot(n) == n.sendq_head % SENDQ_LEN

\* ne->sendq[q].sendpage * DP_PAGESIZE
SlotAddr(n, q) == n.sendq[q].sendpage * DP_PAGESIZE

\* ne_pio_write is entered: q is computed and the busy test made
send_test(size) ==
    /\ Doing("idle", "none")
    /\ task' = IF SendBusy(ne)
               THEN [Return(0) EXCEPT !.io = << >>, !.size = size]
               ELSE [task EXCEPT !.op = "send", !.at = "snap", !.size = size,
                                 !.q = SendSlot(ne), !.ret = 0, !.io = << >>]
    /\ UNCHANGED <<build, pc, prom, ne, isr, cr_ps, bnry, curr, ring, txq, last, log>>

\* ne_rdma_setup, write mode: oldcrda = inb(CRDA0) | (inb(CRDA1) << 8)
send_snap ==
    /\ Doing("send", "snap")
    /\ task' = Step("dummy", << In("CRDA0", "old"), In("CRDA1", "old") >>)
    /\ UNCHANGED <<build, pc, prom, ne, isr, cr_ps, bnry, curr, ring, txq, last, log>>

\* ne_getblock(ne, safeloc, sizeof(dummy), dummy); the device either moves
\* its CRDA pair with the transfer or goes on answering the snapshot
send_dummy ==
    /\ Doing("send", "dummy")
    /\ \E moved \in BOOLEAN :
         task' = [Step("poll", GetBlock(ne.startaddr - 4, 4)) EXCEPT !.moved = moved]
    /\ isr' = isr \cup {"RDC"}
    /\ UNCHANGED <<build, pc, prom, ne, cr_ps, bnry, curr, ring, txq, last, log>>

\* do { newcrda = ... } while (oldcrda == newcrda);
send_poll ==
    /\ Doing("send", "poll")
    /\ task' = IF task.moved
               THEN Step("program", << In("CRDA0", "new"), In("CRDA1", "new") >>)
               ELSE task
    /\ UNCHANGED <<build, pc, prom, ne, isr, cr_ps, bnry, curr, ring, txq, last, log>>

\* RSAR0, RSAR1, RBCR0, RBCR1, then CR with the write mode
send_program ==
    /\ Doing("send", "program")
    /\ task' = Step("stream", RdmaProgram("DM_RW", SlotAddr(ne, task.q), task.size))
    /\ UNCHANGED <<build, pc, prom, ne, isr, cr_ps, bnry, curr, ring, txq, last, log>>

\* outsw / outsb of the packet; the chip has the bytes to commit
send_stream ==
    /\ Doing("send", "stream")
    /\ task' = [Step(IF build = "part_006" THEN "gate" ELSE "fill",
                     << <<"outs", "DATA", [addr |-> SlotAddr(ne, task.q), size |-> task.size]>> >>)
                EXCEPT !.dma = "write"]
    /\ UNCHANGED <<build, pc, prom, ne, isr, cr_ps, bnry, curr, ring, txq, last, log>>

\* The chip commits the last byte of the remote write and sets RDC.
ChipRdmaDone ==
    /\ pc = "run"
    /\ task.dma = "write"
    /\ task' = [task EXCEPT !.dma = "none"]
    /\ isr' = isr \cup {"RDC"}
    /\ UNCHANGED <<build, pc, prom, ne, cr_ps, bnry, curr, ring, txq, last, log>>

\* while ((inb(ISR) & ISR_RDC) == 0) ;   (part_006 only)
send_gate ==
    /\ Doing("send", "gate")
    /\ task' = IF "RDC" \in isr THEN Step("fill", << In("ISR", isr) >>) ELSE task
    /\ UNCHANGED <<build, pc, prom, ne, isr, cr_ps, bnry, curr, ring, txq, last, log>>

\* ne->sendq[q].filled = TRUE;
send_fill ==
    /\ Doing("send", "fill")
    /\ ne' = [ne EXCEPT !.sendq[task.q].filled = TRUE]
    /\ task' = Step("xmit", << >>)
    /\ UNCHANGED <<build, pc, prom, isr, cr_ps, bnry, curr, ring, txq, last, log>>

\* ne_start_xmit(ne, ne->sendq[q].sendpage, size);
send_xmit ==
    /\ Doing("send", "xmit")
    /\ task' = Step("head", StartXmit(ne.sendq[task.q].sendpage, task.size))
    /\ txq' = Append(txq, [page |-> ne.sendq[task.q].sendpage,
                           ready |-> task.dma = "none"])
    /\ UNCHANGED <<build, pc, prom, ne, isr, cr_ps, bnry, curr, ring, last, log>>

\* ne->sendq_head++; return size;
send_head ==
    /\ Doing("send", "head")
    /\ ne' = [ne EXCEPT !.sendq_head = ne.sendq_head + 1]
    /\ task' = Return(task.size)
    /\ UNCHANGED <<build, pc, prom, isr, cr_ps, bnry, curr, ring, txq, last, log>>

\* ne_pio_read is entered: outb(CR, CR_PS_P1)
recv_page1 ==
    /\ Doing("idle", "none")
    /\ task' = [task EXCEPT !.op = "recv", !.at = "curr", !.ret = 0,
                            !.io = << Out("CR", {"PS_P1"}) >>]
    /\ cr_ps' = 1
    /\ UNCHANGED <<build, pc, prom, ne, isr, bnry, curr, ring, txq, last, log>>

\* curr = inb(CURR)
recv_curr ==
    /\ Doing("recv", "curr")
    /\ task' = [Step("page0", << In("CURR", curr) >>) EXCEPT !.c = curr]
    /\ UNCHANGED <<build, pc, prom, ne, isr, cr_ps, bnry, curr, ring, txq, last, log>>

\* outb(CR, CR_PS_P0 | CR_NO_DMA | CR_STA)
recv_page0 ==
    /\ Doing("recv", "page0")
    /\ task' = Step("bnry", << Out("CR", {"PS_P0", "NO_DMA", "STA"}) >>)
    /\ cr_ps' = 0
    /\ UNCHANGED <<build, pc, prom, ne, isr, bnry, curr, ring, txq, last, log>>

\* bnry = inb(BNRY)
recv_bnry ==
    /\ Doing("recv", "bnry")
    /\ task' = [Step("rest", << In("BNRY", bnry) >>) EXCEPT !.b = bnry]
    /\ UNCHANGED <<build, pc, prom, ne, isr, cr_ps, bnry, curr, ring, txq, last, log>>

\* (mutant of recv_rest: the call waits for a packet instead of returning 0)
recv_wait(bufnull, bufsize) ==
    /\ Doing("recv", "rest")
    /\ Candidate(ne, task.b) # curr
    /\ LET r == PioRead(ne, curr, task.b, bufnull, bufsize) IN
         /\ task' = [Return(r.ret) EXCEPT !.io = r.io]
         /\ bnry' = IF r.bnry >= 0 THEN r.bnry ELSE bnry
         /\ ring' = IF r.bnry >= 0 THEN [p \in DOMAIN ring \ {r.page} |-> ring[p]] ELSE ring
         /\ isr' = IF r.hdr THEN isr \cup {"RDC"} ELSE isr
    /\ UNCHANGED <<build, pc, prom, ne, cr_ps, curr, txq, last, log>>

\* the rest of ne_pio_read with the two values read: the empty test, the
\* header, the validation, the copy, the write of BNRY
recv_rest(bufnull, bufsize) ==
    /\ Doing("recv", "rest")
    /\ LET r == PioRead(ne, task.c, task.b, bufnull, bufsize) IN
         /\ task' = [Return(r.ret) EXCEPT !.io = r.io]
         /\ bnry' = IF r.bnry >= 0 THEN r.bnry ELSE bnry
         /\ ring' = IF r.bnry >= 0 THEN [p \in DOMAIN ring \ {r.page} |-> ring[p]] ELSE ring
         /\ isr' = IF r.hdr THEN isr \cup {"RDC"} ELSE isr
    /\ UNCHANGED <<build, pc, prom, ne, cr_ps, curr, txq, last, log>>

\* the steps of the interrupted code
SendSteps ==
    \/ send_test(ETH_MIN_SIZE) \/ send_snap \/ send_dummy \/ send_poll
    \/ send_program \/ send_stream \/ send_gate \/ send_fill \/ send_xmit
    \/ send_head

RecvSteps ==
    \/ recv_page1 \/ recv_curr \/ recv_page0 \/ recv_bnry \/ recv_rest(FALSE, 2048)

\* the chip's events; it ends transmissions with one of bits and stores
\* packets in the first pages pages of the ring
ChipSteps(pages, bits) ==
    \/ \E bit \in bits : ChipTxDone(bit)
    \/ curr < ne.recv_startpage + pages /\ ChipReceive(1, 64)
    \/ ChipRdmaDone

\* calls, chip events and interrupts, with at most sends accepted sends
StepNext(sends, pages, bits) ==
    \/ (ne.sendq_head < sends \/ task.op # "idle" \/ SendBusy(ne)) /\ SendSteps
    \/ RecvSteps
    \/ ChipSteps(pages, bits)
    \/ ne_interrupt

NextStep == StepNext(StepSends, StepPages, {"PTX", "TXE"})

InitStep == InitRun /\ prom = GoodWide

SpecStep == InitStep /\ [][NextStep]_vars

\* the call in progress takes its next step
Mainline == task.op # "idle" /\ (SendSteps \/ RecvSteps)

\* The interrupted code goes on running whenever the handler has returned,
\* and the chip completes a remote write it was given.
NextStepFair == StepNext(FairSends, FairPages + 1, {"PTX"})

SpecStepFair ==
    /\ InitStep /\ [][NextStepFair]_vars
    /\ WF_vars(Mainline) /\ WF_vars(ChipRdmaDone)

Next == NextTx \/ NextRx

Spec == InitRun /\ [][Next]_vars

(***************************************************************************)
(* Claims.                                                                 *)
(***************************************************************************)

\* C9: for both bus widths the layout computed by ne_init satisfies
\* send_startpage < send_stoppage < recv_startpage <= recv_stoppage, with
\* send_stoppage = send_startpage + SENDQ_PAGES*SENDQ_LEN - 1,
\* recv_startpage = send_stoppage + 1, recv_stoppage = send_startpage + pages
\* and recv_stoppage - recv_startpage = pages - SENDQ_PAGES*SENDQ_LEN.
C9_Layout ==
    pc = "run" =>
        /\ ne.send_startpage < ne.send_stoppage
        /\ ne.send_stoppage < ne.recv_startpage
        /\ ne.recv_startpage <= ne.recv_stoppage
        /\ ne.send_stoppage = ne.send_startpage + SENDQ_PAGES * SENDQ_LEN - 1
        /\ ne.recv_startpage = ne.send_stoppage + 1
        /\ ne.recv_stoppage = ne.send_startpage + ne.pages
        /\ ne.recv_stoppage - ne.recv_startpage = ne.pages - SENDQ_PAGES * SENDQ_LEN
        /\ ne.pages = (IF ne.is16bit THEN NE2000_SIZE ELSE NE1000_SIZE) \div DP_PAGESIZE

\* a 16-bit card has been laid out: send pages 64..75, ring 76..128
C9_Witness ==
    /\ pc = "run" /\ last.op = "ne_init" /\ ne.is16bit
    /\ ne.send_startpage = 64 /\ ne.recv_startpage = 76 /\ ne.recv_stoppage = 128

\* C10: after a successful reset, is16bit is TRUE exactly when all 16
\* even/odd pairs of the PROM answer are identical; the image is compacted
\* to its even-indexed bytes only in that case; and when bytes 14 and 15 of
\* the resulting image are both 0x57, ne_probe returns TRUE with address
\* equal to the first 6 bytes of the resulting image.
C10_ProbeImage ==
    (last.op = "ne_probe" /\ last.stage \in {"signature", "found"}) =>
        LET wide == \A i \in 0..15 : prom[2 * i] = prom[2 * i + 1] IN
        /\ ne.is16bit <=> wide
        /\ wide => \A i \in 0..15 : last.image[i] = prom[2 * i]
        /\ ~wide => last.image = prom
        /\ (last.image[14] = 87 /\ last.image[15] = 87) =>
              /\ last.ret = 1
              /\ \A i \in 0..5 : ne.address[i] = IF wide THEN prom[2 * i] ELSE prom[i]

\* a duplicated-byte image with the signature was probed: found, 16-bit, MAC read
C10_Witness ==
    /\ last.op = "ne_probe" /\ last.ret = 1 /\ ne.is16bit /\ prom[1] = 82
    /\ ne.address = [i \in 0..5 |-> MacA[i + 1]]

\* C1: send returns 0 (Busy) exactly when all SENDQ_LEN slots are filled and
\* accepts the frame otherwise; and once a transmit-complete interrupt has
\* retired one slot of a full queue, the next send is accepted.
C1_BusyIffFull ==
    /\ last.op = "ne_pio_write" =>
         /\ last.ret = 0 <=> last.full
         /\ last.ret # 0 => last.ret = last.size
    /\ (last.op = "ne_interrupt" /\ "PTX" \in last.status /\ last.full) =>
         /\ ~SendBusy(ne)
         /\ ~AllFilled(ne)

\* a send was refused with both slots filled, after the counters had wrapped
C1_Witness ==
    /\ last.op = "ne_pio_write" /\ last.ret = 0 /\ last.full
    /\ ne.sendq_head = SENDQ_LEN + 1 /\ ne.sendq_tail = SENDQ_LEN

\* C2 (as claimed): every send that starts a transmission has, between the
\* end of the outbound data stream and the write of TPSR, read ISR with the
\* RDC bit set after the chip completed the remote write of that packet.
C2_GateBeforeTransmit ==
    (last.op = "ne_pio_write" /\ last.ret # 0) =>
        \E s, d, g, t \in 1..Len(log) :
            /\ s < d /\ d < g /\ g < t
            /\ log[s][1] = "outs"
            /\ log[d] = <<"chip", "RDC", "write">>
            /\ log[g][1] = "in" /\ log[g][2] = "ISR" /\ "RDC" \in log[g][3]
            /\ log[t] = Out("TPSR", ne.sendq[(ne.sendq_head - 1) % SENDQ_LEN].sendpage)

(***************************************************************************)
(* Receive claims.  For a read, last.hdr is the header at the candidate    *)
(* page and last.copies the copies made into the caller's buffer.          *)
(***************************************************************************)
\* the copies that wrote buf[i]
CopiesOf(copies, i) ==
    {k \in 1..Len(copies) : copies[k].dst <= i /\ i < copies[k].dst + copies[k].size}

\* card address of the byte that buf[i] holds after the copies (-1: unwritten)
BufSrc(copies, i) ==
    LET S == CopiesOf(copies, i) IN
    IF S = {} THEN -1
    ELSE LET k == CHOOSE x \in S : \A y \in S : y <= x
         IN copies[k].addr + (i - copies[k].dst)

\* the read found a packet at the candidate page
ReadFound == last.op = "ne_pio_read" /\ ~last.empty

\* payload size of the header, as the number it is
PayloadSize(h) == h.rbc - HDR_SIZE

\* the header is that of a valid packet
ValidHdr(h) ==
    /\ PayloadSize(h) >= ETH_MIN_SIZE /\ PayloadSize(h) <= ETH_MAX_SIZE
    /\ h.status % 2 = 1

\* header and payload run past the end of the ring
Crosses(page, h) == page * DP_PAGESIZE + h.rbc > ne.recv_stoppage * DP_PAGESIZE

\* the caller's buffer holds the payload
Sufficient == ~last.bufnull /\ last.bufsize >= PayloadSize(last.hdr)

\* the value ne_pio_read is to leave in BNRY for header h
ExpectedBnry(h) ==
    IF h.next - 1 < ne.recv_startpage THEN ne.recv_stoppage - 1 ELSE h.next - 1

\* C3 (as claimed): a valid packet that continues at recv_startpage, read
\* with a large enough buffer, is returned with its payload bytes in order,
\* and no card address at or beyond recv_stoppage * DP_PAGESIZE is read.
C3_WrapReassembly ==
    (ReadFound /\ ValidHdr(last.hdr) /\ Sufficient /\ Crosses(last.page, last.hdr)) =>
        /\ last.ret = PayloadSize(last.hdr)
        /\ \A i \in 0..(PayloadSize(last.hdr) - 1) :
              BufSrc(last.copies, i) = PayloadAddr(ne, last.page, i)
        /\ \A k \in 1..Len(last.copies) :
              last.copies[k].addr + last.copies[k].size <= ne.recv_stoppage * DP_PAGESIZE

\* C4: a valid packet that does not cross the ring end, read with a buffer of
\* at least payloadSize bytes, is returned with payloadSize = byte count - 4,
\* exactly the payloadSize bytes after the header are copied, and BNRY is
\* written with header.next - 1, or recv_stoppage - 1 when that is below
\* recv_startpage.
C4_ReadInRing ==
    (ReadFound /\ ValidHdr(last.hdr) /\ Sufficient /\ ~Crosses(last.page, last.hdr)) =>
        /\ last.ret = PayloadSize(last.hdr)
        /\ \A i \in 0..(PayloadSize(last.hdr) - 1) :
              BufSrc(last.copies, i) = last.page * DP_PAGESIZE + HDR_SIZE + i
        /\ \A k \in 1..Len(last.copies) :
              /\ last.copies[k].dst >= 0
              /\ last.copies[k].dst + last.copies[k].size <= PayloadSize(last.hdr)
        /\ last.bnry_out = ExpectedBnry(last.hdr)
        /\ bnry = ExpectedBnry(last.hdr)
        /\ log[Len(log)] = Out("BNRY", ExpectedBnry(last.hdr))

\* a packet that ends exactly at the ring end was read: BNRY wrapped to recv_stoppage - 1
C4_Witness ==
    /\ ReadFound /\ ValidHdr(last.hdr) /\ Sufficient /\ ~Crosses(last.page, last.hdr)
    /\ last.hdr.next = ne.recv_startpage
    /\ bnry = ne.recv_stoppage - 1
    /\ last.copies # << >>

\* C5: the read returns 0 whenever the candidate page (BNRY + 1, wrapped from
\* recv_stoppage to recv_startpage) equals CURR; it then starts no remote
\* DMA, writes nothing to the buffer and leaves BNRY unchanged.
C5_EmptyRing ==
    LET cand == IF last.bnry_old + 1 = ne.recv_stoppage
                THEN ne.recv_startpage ELSE last.bnry_old + 1
    IN (last.op = "ne_pio_read" /\ cand = curr) =>
        /\ last.ret = 0
        /\ \A k \in 1..Len(log) :
              /\ log[k][1] \in {"in", "out"}
              /\ log[k][2] \in {"CR", "CURR", "BNRY"}
              /\ ~(log[k][1] = "out" /\ log[k][2] = "BNRY")
              /\ log[k][2] = "CR" => log[k][3] \cap {"DM_RR", "DM_RW"} = {}
        /\ last.copies = << >>
        /\ last.bnry_out = -1
        /\ bnry = last.bnry_old

\* a read of the empty ring with BNRY on the last page: the candidate wrapped
C5_Witness ==
    /\ last.op = "ne_pio_read" /\ last.ret = 0
    /\ last.bnry_old = ne.recv_stoppage - 1 /\ curr = ne.recv_startpage
    /\ Len(log) = 4

\* C6: when the candidate's header gives a payload size outside
\* [ETH_MIN_SIZE, ETH_MAX_SIZE] or has the receive-success bit clear, the read
\* returns -1, copies nothing and does not write BNRY.
C6_Malformed ==
    (ReadFound /\ ~ValidHdr(last.hdr)) =>
        /\ last.ret = -1
        /\ last.copies = << >>
        /\ last.bnry_out = -1
        /\ bnry = last.bnry_old
        /\ \A k \in 1..Len(log) : ~(log[k][1] = "out" /\ log[k][2] = "BNRY")

\* a header with the receive-success bit clear and a size in range was refused
C6_Witness ==
    /\ ReadFound /\ last.ret = -1
    /\ last.hdr.status = 0 /\ PayloadSize(last.hdr) = ETH_MIN_SIZE

\* a valid packet is stored behind the candidate page
ValidBehind == \E p \in DOMAIN ring : p # last.page /\ ValidHdr(ring[p])

\* C7 (as claimed): after a read returned -1 for a packet and valid packets
\* have been stored after it, later reads eventually return a valid packet.
C7_MalformedDropped ==
    (ReadFound /\ last.ret = -1 /\ ValidBehind)
        ~> (ReadFound /\ last.ret > 0 /\ last.copies # << >>)

\* C8: when a valid packet is pending and buf is null or bufsize is below
\* payloadSize, the read returns payloadSize without consuming the packet:
\* BNRY is not written and nothing is copied, so a read that follows at once
\* with a sufficient buffer returns that same packet.
C8_RetryAfterShortBuffer ==
    (ReadFound /\ ValidHdr(last.hdr) /\ ~Sufficient) =>
        /\ last.ret = PayloadSize(last.hdr)
        /\ last.copies = << >>
        /\ last.bnry_out = -1
        /\ bnry = last.bnry_old
        /\ \A k \in 1..Len(log) : ~(log[k][1] = "out" /\ log[k][2] = "BNRY")
        /\ last.page \in DOMAIN ring /\ ring[last.page] = last.hdr
        /\ LET again == PioRead(ne, curr, bnry, FALSE, 2048) IN
             /\ again.page = last.page
             /\ again.ret = last.ret
             /\ again.copies # << >>
             /\ again.bnry = ExpectedBnry(last.hdr)

\* a read with a null buffer found a valid packet of the largest size
C8_Witness ==
    /\ ReadFound /\ ValidHdr(last.hdr) /\ last.bufnull
    /\ last.ret = ETH_MAX_SIZE /\ bnry = last.bnry_old

(***************************************************************************)
(* Probe and bring-up claims.                                              *)
(***************************************************************************)
\* byte i of the image the signature test reads, from the bytes the card
\* answered: byte 2i of a doubled answer, byte i otherwise
ImageByte(i) ==
    IF \A k \in 0..15 : prom[2 * k] = prom[2 * k + 1] THEN prom[2 * i] ELSE prom[i]

\* C11: when byte 14 or byte 15 of the PROM image (compacted when wide)
\* differs from 0x57, ne_probe returns FALSE.
C11_BadSignature ==
    (last.op = "ne_probe" /\ last.stage \in {"signature", "found"}
       /\ (ImageByte(14) # 87 \/ ImageByte(15) # 87)) =>
        /\ last.ret = 0
        /\ pc = "notfound"

\* a probe that read a doubled image with byte 14 good and byte 15 bad
C11_Witness ==
    /\ last.op = "ne_probe" /\ last.ret = 0 /\ last.stage = "signature"
    /\ ne.is16bit
    /\ ImageByte(14) = 87 /\ ImageByte(15) = 66

\* C12 (as claimed): the reset wait polls ISR at most 10,000 times while
\* the reset bit is clear and then returns FALSE, and the PROM read is
\* reached only after a poll that read the reset bit set.
C12_ResetBounded ==
    /\ last.op = "reset_wait" => last.polls <= 10000
    /\ pc = "prom" => "RST" \in last.status

\* the calls of kind op among the calls of ethinit
CallsOf(op) == SelectSeq(last.calls, LAMBDA c : c[1] = op)

\* C13: ethinit probes the ports in the order 0x300, 0xC100, 0x240, 0x280,
\* 0x320, 0x340, 0x360 and stops at the first port whose probe succeeds:
\* ne_init and the interrupt enabling are done at most once and for that
\* port only, no later port is probed, and when every probe fails ne_init
\* is not called.
C13_PortScan ==
    last.op = "ethinit" =>
      LET order  == <<768, 49408, 576, 640, 800, 832, 864>>
          probes == CallsOf("ne_probe")
          inits  == CallsOf("ne_init")
          n      == Len(probes)
      IN /\ n >= 1 /\ n <= 7
         /\ \A k \in 1..n : probes[k][2] = order[k]
         /\ \A k \in 1..n : probes[k][3] = (IF k \in last.good THEN 1 ELSE 0)
         /\ \A k \in 1..(n - 1) : probes[k][3] = 0
         /\ Len(inits) <= 1
         /\ Len(CallsOf("picenable")) = Len(inits)
         /\ Len(CallsOf("ioapicenable")) = Len(inits)
         /\ IF last.good = {}
            THEN n = 7 /\ inits = << >> /\ pc = "notfound"
            ELSE /\ \A k \in last.good : n <= k
                 /\ inits = << <<"ne_init", order[n], 0>> >>
                 /\ Len(last.calls) = n + 3
                 /\ last.calls[n] = <<"ne_probe", order[n], 1>>
                 /\ last.calls[n + 1] = <<"ne_init", order[n], 0>>
                 /\ last.calls[n + 2][1] = "picenable"
                 /\ last.calls[n + 3][1] = "ioapicenable"
                 /\ pc = "run"

\* two ports failed, the card at 0x240 was taken although 0x320 holds one too
C13_Witness ==
    /\ last.op = "ethinit" /\ pc = "run"
    /\ last.good = {3, 5}
    /\ Len(last.calls) = 6
    /\ last.calls[4] = <<"ne_init", 576, 0>>
    /\ ne.recv_stoppage = 128

\* C14 (as claimed): every request that is unknown or unimplemented, the
\* IPC-setup request included, makes ethioctl return an error code and
\* leaves the driver running.
C14_IoctlRejects ==
    last.op = "ethioctl" =>
        /\ last.returned
        /\ last.ret # 0
        /\ pc = "run"

\* what probe and init set once: address, width, RAM, the ring boundaries
\* and the page of every send slot
Frozen ==
    << ne.address, ne.is16bit, ne.ramsize, ne.startaddr, ne.pages,
       ne.send_startpage, ne.send_stoppage, ne.recv_startpage, ne.recv_stoppage,
       [i \in 0..(SENDQ_LEN - 1) |-> ne.sendq[i].sendpage] >>

\* C15: after probe and init no send, receive, interrupt or ioctl, whatever
\* its outcome, changes the address, the width, the RAM size and start, the
\* page count, the four ring boundaries or a send slot's page.
C15_LayoutImmutable == [][Frozen' = Frozen]_vars

\* a read was refused as malformed after the queue had been full and a slot
\* retired; the structure still holds the address and layout of init
C15_Witness ==
    /\ last.op = "ne_pio_read" /\ last.ret = -1
    /\ ne.sendq_head = 3 /\ ne.sendq_tail = 2
    /\ ne.address = [i \in 0..5 |-> MacA[i + 1]]
    /\ ne.sendq[1].sendpage = ne.send_startpage + SENDQ_PAGES
    /\ ne.recv_stoppage = ne.send_startpage + ne.pages

(***************************************************************************)
(* Send queue claims.                                                      *)
(***************************************************************************)
\* C16: a send that returns Busy has changed nothing: head, tail and every
\* filled flag are as before, and it made no port access (no remote DMA
\* setup, no byte to the data port, no transmit command).
C16_BusyNoEffect ==
    [][(last'.op = "ne_pio_write" /\ last'.ret = 0) =>
          /\ ne' = ne
          /\ txq' = txq /\ isr' = isr
          /\ log' = << >>]_vars

\* a send of the largest frame was refused with two transmissions under way
C16_Witness ==
    /\ last.op = "ne_pio_write" /\ last.ret = 0 /\ last.size = ETH_MAX_SIZE
    /\ log = << >>
    /\ ne.sendq_head = 2 /\ ne.sendq_tail = 1 /\ Len(txq) = 2

\* C17: a header (status, next, byte count) written as the 4 ring bytes
\* status, next, rbc0, rbc1 with the count low byte first, and decoded as
\* ne_pio_read does, gives back status, next and byte count, for every
\* byte count in 0..65535.
C17_HeaderRoundTrip ==
    last.op = "header_read" =>
        /\ last.bytes = << last.hdr.status, last.hdr.next,
                           last.hdr.rbc % 256, last.hdr.rbc \div 256 >>
        /\ last.decoded.status = last.hdr.status
        /\ last.decoded.next = last.hdr.next
        /\ last.decoded.rbc = last.hdr.rbc
        /\ last.pktsize = last.hdr.rbc - 4

\* the header of a 1518-byte packet went through: count bytes 0xEE, 0x05
C17_Witness ==
    /\ last.op = "header_read"
    /\ last.hdr = [status |-> 254, next |-> 63, rbc |-> 1518]
    /\ last.bytes = <<254, 63, 238, 5>>
    /\ last.decoded.rbc = 1518

\* the step is an accepted send / an interrupt that handled PTX
AcceptStep == last'.op = "ne_pio_write" /\ last'.ret # 0
PtxStep == last'.op = "ne_interrupt" /\ "PTX" \in last'.status

\* C18: in every state reached by sends and interrupts after init,
\* head <= tail + 1, and head and tail never decrease.
C18_QueueCounters ==
    [][/\ ne.sendq_head <= ne.sendq_tail + 1
       /\ ne.sendq_head' <= ne.sendq_tail' + 1
       /\ ne.sendq_head' >= ne.sendq_head
       /\ ne.sendq_tail' >= ne.sendq_tail]_vars

\* the queue is full with head = tail + 1 after a slot was retired and refilled
C18_Witness ==
    /\ ne.sendq_head = ne.sendq_tail + 1
    /\ ne.sendq_head = 3
    /\ last.op = "ne_pio_write" /\ last.ret = ETH_MIN_SIZE

\* C19: slots are retired in the order they were filled.  head counts the
\* accepted sends from 0 and tail the handled transmit-complete bits from
\* SENDQ_LEN - 1: the k-th accepted send fills slot (k - 1) % SENDQ_LEN and
\* nothing else, the k-th handled transmit-complete adds one to tail and
\* clears that same slot and nothing else, and no other step changes head,
\* tail or a flag.
C19_RetireInOrder ==
    [][/\ AcceptStep =>
            LET k == ne.sendq_head' 
                c == (k - 1) % SENDQ_LEN
            IN /\ ne.sendq_head' = ne.sendq_head + 1
               /\ ne.sendq_tail' = ne.sendq_tail
               /\ ~ne.sendq[c].filled /\ ne.sendq'[c].filled
               /\ \A i \in 0..(SENDQ_LEN - 1) : i # c => ne.sendq'[i] = ne.sendq[i]
       /\ PtxStep =>
            LET k == ne.sendq_tail' - (SENDQ_LEN - 1)
                c == (k - 1) % SENDQ_LEN
            IN /\ ne.sendq_tail' = ne.sendq_tail + 1
               /\ ne.sendq_head' = ne.sendq_head
               /\ k >= 1 /\ k <= ne.sendq_head
               /\ ne.sendq[c].filled /\ ~ne.sendq'[c].filled
               /\ \A i \in 0..(SENDQ_LEN - 1) : i # c => ne.sendq'[i] = ne.sendq[i]
       /\ (~AcceptStep /\ ~PtxStep) =>
            /\ ne.sendq_head' = ne.sendq_head
            /\ ne.sendq_tail' = ne.sendq_tail
            /\ ne.sendq' = ne.sendq]_vars

\* the second transmit-complete was handled: slot 1, filled second, is free
C19_Witness ==
    /\ last.op = "ne_interrupt" /\ "PTX" \in last.status
    /\ ne.sendq_tail = SENDQ_LEN + 1
    /\ ~ne.sendq[1].filled
    /\ ne.sendq_head >= 2

\* number of slots with filled set
FilledCount == Cardinality({i \in 0..(SENDQ_LEN - 1) : ne.sendq[i].filled})

\* C20: between operations the number of filled slots equals
\* head - (tail - (SENDQ_LEN - 1)), lies in 0..SENDQ_LEN, and is the number
\* of transmits started whose completion has not been handled: it is 0
\* after init, an accepted send adds one, a handled transmit-complete takes
\* one away and no other step changes it.  The chip signals completion only
\* for transmits that were started.
\* the count of filled slots agrees with the counters and is in range
CountAgrees ==
    /\ FilledCount = ne.sendq_head - (ne.sendq_tail - (SENDQ_LEN - 1))
    /\ FilledCount >= 0 /\ FilledCount <= SENDQ_LEN
    /\ (last.op = "ne_init" => FilledCount = 0)

C24_SlotsFreed ==
    \A i \in 0..(SENDQ_LEN - 1) : ne.sendq[i].filled ~> ~ne.sendq[i].filled

\* C29: with every stored header's next inside the ring, BNRY always holds a
\* page in [recv_startpage, recv_stoppage - 1] and the page whose header
\* ne_pio_read reads lies in [recv_startpage, recv_stoppage).
C29_RingPointers ==
    /\ \A p \in DOMAIN ring :
         ring[p].next >= ne.recv_startpage /\ ring[p].next < ne.recv_stoppage
    /\ bnry >= ne.recv_startpage /\ bnry <= ne.recv_stoppage - 1
    /\ (last.op = "ne_pio_read" /\ ~last.empty) =>
         (last.page >= ne.recv_startpage /\ last.page < ne.recv_stoppage)

\* a consuming read of the packet that ends at the top of the ring: the
\* boundary is mended to the last page, and the next header is read from the
\* first page
C29_Witness ==
    /\ last.op = "ne_pio_read" /\ last.ret > 0
    /\ last.hdr.next = ne.recv_startpage
    /\ bnry = ne.recv_stoppage - 1
    /\ Candidate(ne, bnry) = ne.recv_startpage

\* the pages of the stored packets in the order ne_pio_read will meet them:
\* from the candidate page along the headers' next bytes up to CURR
RECURSIVE ChainFrom(_, _)
ChainFrom(p, k) ==
    IF p = curr \/ k = 0 THEN << >>
    ELSE << p >> \o ChainFrom(HeaderAt(p).next, k - 1)

ChainSeq == ChainFrom(Candidate(ne, bnry), MaxPending + 1)

\* C30: consuming receives return the stored packets in the chip's order,
\* each once: the chain holds every stored packet once and nothing else, the
\* chip appends at the end of the chain, a consuming read takes
\* the head of the chain and leaves the candidate at that header's next, any
\* other step leaves the chain alone, and a read whose candidate is CURR
\* returns 0.
C30_FifoOrder ==
    [][ LET before == ChainSeq
            after  == ChainSeq'
        IN /\ { after[i] : i \in 1..Len(after) } = DOMAIN ring'
           /\ Len(after) = Cardinality(DOMAIN ring')
           /\ IF last'.op = "chip_receive"
              THEN after = Append(before, curr)
              ELSE IF last'.op = "ne_pio_read" /\ last'.bnry_out >= 0
              THEN /\ before # << >>
                   /\ last'.page = Head(before)
                   /\ after = Tail(before)
                   /\ Candidate(ne', bnry') = last'.hdr.next
                   /\ last'.ret > 0
              ELSE after = before
           /\ (last'.op = "ne_pio_read" /\ Candidate(ne, bnry) = curr) =>
                (last'.ret = 0 /\ last'.bnry_out < 0 /\ ring = EmptyRing)
      ]_vars

\* a consuming read that leaves a second stored packet as the next candidate
C30_Witness ==
    /\ last.op = "ne_pio_read" /\ last.bnry_out >= 0 /\ last.ret > 0
    /\ Candidate(ne, bnry) = last.hdr.next
    /\ Candidate(ne, bnry) \in DOMAIN ring
    /\ Len(ChainSeq) = 1

\* the state ne_init leaves: nothing has been called since
Fresh == last.op = "ne_init"

FreshOK ==
    Fresh =>
      /\ \A i \in 0..(SENDQ_LEN - 1) : ~ne.sendq[i].filled
      /\ ne.sendq_head = 0 /\ ne.sendq_tail = SENDQ_LEN - 1
      /\ bnry = ne.recv_startpage /\ curr = ne.recv_startpage + 1
      /\ ring = EmptyRing /\ txq = << >>

\* C28: right after init every slot is free, head = 0 and tail = SENDQ_LEN - 1,
\* BNRY = recv_startpage and CURR = recv_startpage + 1; while no slot has been
\* retired the first SENDQ_LEN sends are accepted, and a receive before the
\* chip has stored a packet returns 0.
C28_AfterInit ==
    [][ /\ FreshOK
        /\ (last'.op = "ne_pio_write" /\ ne.sendq_tail = SENDQ_LEN - 1
              /\ ne.sendq_head < SENDQ_LEN) =>
             (last'.ret # 0 /\ ne'.sendq_head = ne.sendq_head + 1)
        /\ (last'.op = "ne_pio_read" /\ bnry = ne.recv_startpage
              /\ curr = ne.recv_startpage + 1) =>
             (last'.ret = 0 /\ last'.empty /\ bnry' = bnry)
      ]_vars

\* SENDQ_LEN sends accepted in a row, no slot retired, no packet stored
C28_Witness ==
    /\ last.op = "ne_pio_write" /\ last.ret # 0
    /\ ne.sendq_head = SENDQ_LEN /\ ne.sendq_tail = SENDQ_LEN - 1
    /\ AllFilled(ne)
    /\ curr = ne.recv_startpage + 1 /\ ring = EmptyRing

\* The registers of the DP8390 after the first k writes of s.  A write to CR
\* selects the register page and starts the chip when it carries STA; a write
\* reaches a page-1 register (PAR, MAR, CURR) only while page 1 is selected
\* and a page-0 register only while page 0 is.
Page1Regs == {"CURR"} \cup { PAR[i] : i \in 1..6 } \cup { MAR[i] : i \in 1..8 }

RegsBefore ==
    [page |-> 0, started |-> FALSE, startedAt |-> 0, RCR |-> {}, TCR |-> {},
     PSTART |-> -1, PSTOP |-> -1, BNRY |-> -1, CURR |-> -1]

RECURSIVE RegsAfter(_, _)
RegsAfter(s, k) ==
    IF k = 0 THEN RegsBefore
    ELSE LET r   == RegsAfter(s, k - 1)
             reg == s[k][2]
             v   == s[k][3]
             hit == (reg \in Page1Regs) = (r.page = 1)
         IN IF reg = "CR"
            THEN [r EXCEPT !.page = IF "PS_P1" \in v THEN 1 ELSE 0,
                           !.started = r.started \/ "STA" \in v,
                           !.startedAt = IF ~r.started /\ "STA" \in v THEN k ELSE @]
            ELSE IF ~hit THEN r
            ELSE IF reg = "RCR" THEN [r EXCEPT !.RCR = v]
            ELSE IF reg = "TCR" THEN [r EXCEPT !.TCR = v]
            ELSE IF reg = "PSTART" THEN [r EXCEPT !.PSTART = v]
            ELSE IF reg = "PSTOP" THEN [r EXCEPT !.PSTOP = v]
            ELSE IF reg = "BNRY" THEN [r EXCEPT !.BNRY = v]
            ELSE IF reg = "CURR" THEN [r EXCEPT !.CURR = v]
            ELSE r

\* C27: in the register writes of ne_init the chip is started before TCR is
\* set to normal and RCR to promiscuous; at the start write the receiver is
\* in monitor mode, the transmitter in internal loopback, and PSTART, PSTOP,
\* BNRY and CURR hold the ring's pages.
C27_StartOrder ==
    last.op = "ne_init" =>
      LET end == RegsAfter(log, Len(log))
          k   == end.startedAt
          at  == RegsAfter(log, k - 1)
      IN /\ end.started /\ k >= 1
         /\ ~at.started
         /\ at.RCR = {"MON"} /\ at.TCR = {"INTERNAL"}
         /\ at.PSTART = ne.recv_startpage /\ at.PSTOP = ne.recv_stoppage
         /\ at.BNRY = ne.recv_startpage /\ at.CURR = ne.recv_startpage + 1
         /\ end.TCR = {"NORMAL"} /\ end.RCR = {"PRO"}
         /\ end.page = 0
         /\ \A i \in 1..k : log[i] \notin {<<"out", "TCR", {"NORMAL"}>>, <<"out", "RCR", {"PRO"}>>}
         /\ bnry = end.BNRY /\ curr = end.CURR /\ cr_ps = end.page

\* ne_init has run on a probed card of either width
C27_Witness ==
    /\ last.op = "ne_init" /\ pc = "run"
    /\ Len(log) = Len(InitSeq(ne))
    /\ log[Len(log)] = <<"out", "RCR", {"PRO"}>>
    /\ RegsAfter(log, Len(log)).started

\* slots whose last started transmission ne_interrupt has not retired: the
\* k-th accepted send uses slot (k - 1) % SENDQ_LEN and the k-th retirement
\* frees that slot
Outstanding(n) ==
    { k % SENDQ_LEN : k \in (n.sendq_tail - SENDQ_LEN + 1)..(n.sendq_head - 1) }

\* the remote write of a send has been programmed and not yet been followed
\* by the slot being marked filled
Writing == task.op = "send" /\ task.at \in {"stream", "gate", "fill"}

\* C21: in every interleaving of the steps of send with ne_interrupt and the
\* chip's events, the slot a send writes by remote DMA has no started
\* transmission that is not retired: its flag is clear, it is not among the
\* unretired slots, and the chip is not transmitting from its pages.
C21_NoOverwrite ==
    Writing =>
      /\ task.q = ne.sendq_head % SENDQ_LEN
      /\ ~ne.sendq[task.q].filled
      /\ task.q \notin Outstanding(ne)
      /\ \A i \in 1..Len(txq) : txq[i].page # ne.sendq[task.q].sendpage
      /\ task.at = "stream" =>
           SubSeq(task.io, Len(task.io) - 4, Len(task.io))
             = RdmaProgram("DM_RW", ne.sendq[task.q].sendpage * DP_PAGESIZE, task.size)

\* a send writes the slot it used two sends before, after the handler retired
\* it, while the chip still transmits from the other slot
C21_Witness ==
    /\ Writing /\ task.at = "fill"
    /\ ne.sendq_head = SENDQ_LEN /\ ne.sendq_tail = SENDQ_LEN
    /\ Len(txq) = 1 /\ txq[1].page = ne.sendq[1].sendpage
    /\ ne.sendq[1].filled

\* C22 (as claimed): whenever ne_interrupt can start, register page 0 is
\* selected.
C22_PageZero == (pc = "run" /\ isr \cap IMR_BITS # {}) => cr_ps = 0

\* the five writes that end ne_rdma_setup, at positions i .. i + 4 of io
ProgramAt(io, i, mode, addr, size) ==
    /\ io[i]     = <<"out", "RSAR0", addr % 256>>
    /\ io[i + 1] = <<"out", "RSAR1", (addr \div 256) % 256>>
    /\ io[i + 2] = <<"out", "RBCR0", size % 256>>
    /\ io[i + 3] = <<"out", "RBCR1", (size \div 256) % 256>>
    /\ io[i + 4] = <<"out", "CR", {mode, "PS_P0", "STA"}>>

\* the port accesses of a write-mode setup, complete
WriteSetupDone ==
    LET io == task.io IN
    /\ Len(io) = 15
    /\ io[1] = <<"in", "CRDA0", "old">> /\ io[2] = <<"in", "CRDA1", "old">>
    /\ ProgramAt(io, 3, "DM_RR", ne.startaddr - 4, 4)
    /\ io[8] = <<"ins", "DATA", [addr |-> ne.startaddr - 4, size |-> 4]>>
    /\ io[9] = <<"in", "CRDA0", "new">> /\ io[10] = <<"in", "CRDA1", "new">>
    /\ ProgramAt(io, 11, "DM_RW", ne.sendq[task.q].sendpage * DP_PAGESIZE, task.size)

\* the port accesses of a receive that read a header: no CRDA access, the
\* read-mode setup right after the four register accesses
ReadSetupDone ==
    LET io == task.io IN
    /\ Len(io) >= 10
    /\ ProgramAt(io, 5, "DM_RR", Candidate(ne, task.b) * DP_PAGESIZE, HDR_SIZE)
    /\ io[10][1] = "ins"
    /\ \A i \in 1..Len(io) : io[i][2] \notin {"CRDA0", "CRDA1"}

SetupOrderOK ==
    /\ (task.op = "send" /\ task.at = "stream") => (task.moved /\ WriteSetupDone)
    /\ (task.op = "send" /\ task.at \in {"snap", "dummy", "poll"}) =>
         \A i \in 1..Len(task.io) : task.io[i][2] # "CR" \/ "DM_RW" \notin task.io[i][3]
    /\ (task.op = "idle" /\ task.io # << >> /\ task.io[1][2] = "CR" /\ Len(task.io) > 4) =>
         ReadSetupDone

\* C26: ne_rdma_setup in write mode reads the CRDA pair, makes the dummy
\* read below startaddr in read mode (no CRDA access of its own), and passes
\* the poll only on a read of the pair that differs from the snapshot; in
\* both modes it then writes RSAR0, RSAR1, RBCR0, RBCR1 and last CR with
\* page 0, start and the mode.
C26_SetupOrder ==
    [][ /\ SetupOrderOK /\ SetupOrderOK'
        /\ (task.at = "poll" /\ task'.at # "poll") => (task.moved /\ task'.at = "program")
      ]_vars

\* a write-mode setup has been completed after the device moved its CRDA
C26_Witness ==
    /\ task.op = "send" /\ task.at = "stream" /\ task.moved
    /\ WriteSetupDone
    /\ ne.sendq_head = 1

\* C23 (as claimed): a send that waits at the completion gate for a remote
\* write the chip completes leaves the gate and returns, whatever the handler
\* does meanwhile.
C23_GateLeft == (task.op = "send" /\ task.at = "gate") ~> (task.op = "idle")

\* the completion poll of send cannot end: RDC is clear and no remote write
\* is left for the chip to complete
StuckGate == task.at = "gate" /\ "RDC" \notin isr /\ task.dma = "none"

\* the address-change poll of the write setup cannot end: the device goes on
\* answering the snapshot
StuckPoll == task.at = "poll" /\ ~task.moved

\* C25 (as claimed): a call of send or receive returns unless the completion
\* poll of send does not end (or the handler never gives the processor back).
C25_ReturnsButGate ==
    (task.op # "idle") ~> (task.op = "idle" \/ pc = "hang" \/ StuckGate)

\* C25 (amended): a call of send or receive returns unless the completion
\* poll or the address-change poll of send does not end (or the handler never
\* gives the processor back); receive has no such poll.
C25_ReturnsButPolls ==
    /\ (task.op # "idle") ~> (task.op = "idle" \/ pc = "hang" \/ StuckGate \/ StuckPoll)
    /\ (task.op = "recv") ~> (task.op = "idle" \/ pc = "hang")

\* a send has returned after both of its polls ended, and a send is held by
\* nothing but them
C25_Witness ==
    /\ task.op = "idle" /\ task.ret = ETH_MIN_SIZE /\ task.moved
    /\ build = "part_006"
    /\ Len(task.io) = 21
    /\ ne.sendq_head = 2

\* The registers of the device after the first k accesses of io.  On a
\* DP8390 (paged) MAR5 (page 1) and TCR (page 0) answer at the same offset: a
\* write to either name reaches the one on the page that CR selects.  A
\* device without register pages has one register at that offset.
RECURSIVE DevAfter(_, _, _)
DevAfter(io, k, dev) ==
    IF k = 0 THEN dev
    ELSE LET d == DevAfter(io, k - 1, dev)
             e == io[k]
         IN IF e[1] # "out" THEN d
            ELSE IF e[2] = "CR" THEN [d EXCEPT !.cr = e[3]]
            ELSE IF e[2] \in {"MAR5", "TCR"}
            THEN IF ~d.paged \/ "PS_P1" \in d.cr THEN [d EXCEPT !.mar5 = e[3]]
                 ELSE [d EXCEPT !.tcr = e[3]]
            ELSE d

\* the registers when ne_probe returned, from those it found
ProbeRegs ==
    DevAfter(log, Len(log),
             [paged |-> last.paged, cr |-> CrNames(last.reg0), mar5 |-> last.regd,
              tcr |-> {"NORMAL"}])

\* C31 (as claimed): when the second read of CNTR0 is nonzero ne_probe
\* returns FALSE and leaves the command register with the value it read at
\* the start and MAR5 with the value it saved.
C31_PresenceRestore ==
    (last.op = "ne_probe" /\ last.stage = "presence") =>
      /\ last.ret = 0
      /\ ProbeRegs.cr = CrNames(last.reg0)
      /\ ProbeRegs.mar5 = last.regd

\* C32: whenever ne_probe returns FALSE (floating bus, presence test, reset
\* timeout, signature) the address field is what it was, and in the
\* floating-bus case its only port access is the read of the base register.
C32_NotFoundFrame ==
    [][ (last'.op = "ne_probe" /\ last'.ret = 0) =>
          /\ last'.stage \in {"floating", "presence", "reset", "signature"}
          /\ ne'.address = ne.address
          /\ last'.stage = "floating" =>
               (last'.reg0 = 255 /\ log' = << <<"in", "CR", CrNames(255)>> >>)
          /\ last'.reg0 = 255 => last'.stage = "floating"
      ]_vars

\* the PROM was read and its signature refused: the width was recorded, the
\* address was not
C32_Witness ==
    /\ last.op = "ne_probe" /\ last.ret = 0 /\ last.stage = "signature"
    /\ ne.address = ZeroNe.address
    /\ prom[0] # 0
    /\ Len(log) > 32

\* a step of ne_interrupt: it alone takes status bits away, or stops
HandlerStep == (isr # {} /\ isr' = {}) \/ (pc = "run" /\ pc' = "hang")

\* the registers a remote DMA or a move of the ring pointers goes through
DmaRegs == {"RSAR0", "RSAR1", "RBCR0", "RBCR1", "CR", "DATA", "BNRY"}

\* C33: ne_interrupt never dequeues: it starts no remote DMA and does not
\* write BNRY, and leaves the ring, BNRY and CURR as they were, whether or
\* not the status has the receive bit.
C33_HandlerNoDequeue ==
    [][ HandlerStep =>
          /\ ring' = ring /\ bnry' = bnry /\ curr' = curr
          /\ task' = task
          /\ \A i \in 1..Len(log') : log'[i][2] \notin DmaRegs
      ]_vars

\* the handler has run on a status with the receive bit while the packet
\* it reports is still in the ring
C33_Witness ==
    /\ last.op = "ne_interrupt" /\ "PRX" \in last.status
    /\ isr = {} /\ cr_ps = 0 /\ pc = "run"
    /\ ring # EmptyRing
    /\ Candidate(ne, bnry) \in DOMAIN ring
    /\ Len(log) = 3

\* the handler has just run on a status with neither PTX nor PRX
QuietStep ==
    /\ HandlerStep
    /\ last'.op = "ne_interrupt"
    /\ last'.status \cap {"PTX", "PRX"} = {}

\* C34: on a status with neither the transmit nor the receive bit the
\* handler acknowledges the status and changes nothing else: head, tail
\* and every filled flag are as before, and the kernel keeps running.
C34_QuietStatus ==
    [][ QuietStep =>
          /\ log' = << In("ISR", isr), Out("ISR", isr), In("ISR", {}) >>
          /\ isr' = {}
          /\ ne'.sendq_head = ne.sendq_head
          /\ ne'.sendq_tail = ne.sendq_tail
          /\ \A i \in 0..(SENDQ_LEN - 1) : ne'.sendq[i].filled = ne.sendq[i].filled
          /\ ne' = ne
          /\ pc' = "run"
          /\ UNCHANGED <<cr_ps, bnry, curr, ring, txq>>
      ]_vars

\* the handler served a transmit error alone while a slot was outstanding
C34_Witness ==
    /\ last.op = "ne_interrupt" /\ last.status = {"TXE"}
    /\ ne.sendq_head > ne.sendq_tail
    /\ \E i \in 0..(SENDQ_LEN - 1) : ne.sendq[i].filled
    /\ isr = {} /\ pc = "run"

\* C35: ne_interrupt drains the status register: every nonzero value it
\* reads is written back to the interrupt-status register before the next
\* read, and it returns, after a read of zero, once the chip raises no more
\* status bits.
C35_Drains ==
    last.op = "ne_interrupt" =>
        /\ pc = "run"
        /\ Len(log) >= 1 /\ log[Len(log)] = In("ISR", {})
        /\ \A i \in 1..Len(log) :
              (log[i][1] = "in" /\ log[i] # In("ISR", {})) =>
                  /\ log[i][2] = "ISR"
                  /\ i < Len(log) /\ log[i + 1] = Out("ISR", log[i][3])

\* C36: after ne_init each queue counter has one writer: only ne_pio_write
\* changes sendq_head and it never changes sendq_tail, only ne_interrupt
\* changes sendq_tail and it never changes sendq_head, and ne_pio_read
\* changes neither.
C36_SingleWriter ==
    [][ /\ ne'.sendq_head # ne.sendq_head => last'.op = "ne_pio_write"
        /\ ne'.sendq_tail # ne.sendq_tail => last'.op = "ne_interrupt"
        /\ last'.op = "ne_pio_write" => ne'.sendq_tail = ne.sendq_tail
        /\ last'.op = "ne_interrupt" => ne'.sendq_head = ne.sendq_head
        /\ last'.op = "ne_pio_read" =>
              /\ ne'.sendq_head = ne.sendq_head
              /\ ne'.sendq_tail = ne.sendq_tail
      ]_vars

\* a receive has delivered a packet after sends moved head and the handler
\* moved tail, with a slot still outstanding
C36_Witness ==
    /\ last.op = "ne_pio_read" /\ last.ret > 0
    /\ ne.sendq_tail >= 1
    /\ ne.sendq_head >= ne.sendq_tail + 1

\* the pages of send slot i
SlotRange(i) == ne.sendq[i].sendpage .. (ne.sendq[i].sendpage + SENDQ_PAGES - 1)

\* the pages of the send area and of the receive ring
SendArea == ne.send_startpage .. ne.send_stoppage
RecvArea == ne.recv_startpage .. (ne.recv_stoppage - 1)

\* C37: after ne_init slot i has page send_startpage + i * SENDQ_PAGES; the
\* slots occupy pairwise disjoint ranges of SENDQ_PAGES pages inside
\* [send_startpage, send_stoppage], together cover it, and none overlaps
\* the receive ring.
C37_SlotLayout ==
    pc \in {"run", "hang", "panic"} =>
        LET Slots == 0..(SENDQ_LEN - 1) IN
        /\ \A i \in Slots : ne.sendq[i].sendpage = ne.send_startpage + i * SENDQ_PAGES
        /\ \A i \in Slots : Cardinality(SlotRange(i)) = SENDQ_PAGES
        /\ \A i \in Slots : SlotRange(i) \subseteq SendArea
        /\ \A i, j \in Slots : i # j => SlotRange(i) \cap SlotRange(j) = {}
        /\ UNION { SlotRange(i) : i \in Slots } = SendArea
        /\ \A i \in Slots : SlotRange(i) \cap RecvArea = {}
        /\ RecvArea # {}

\* on a card of the narrow layout slots have been filled and retired and
\* the queue holds a packet again
C37_Witness ==
    /\ pc = "run" /\ ~ne.is16bit
    /\ ne.sendq_tail >= SENDQ_LEN
    /\ \E i \in 0..(SENDQ_LEN - 1) : ne.sendq[i].filled

\* ne_pio_read found a packet whose header has a byte count below the
\* size of the header itself
ShortCount ==
    /\ last.op = "ne_pio_read" /\ ~last.empty
    /\ last.hdr.rbc < HDR_SIZE

\* C38: a header whose 16-bit byte count is smaller than the header size is
\* rejected: the unsigned subtraction wraps to a value above ETH_MAX_SIZE,
\* so ne_pio_read returns -1, copies nothing and leaves the boundary and
\* the ring as they were.
C38_ShortCountRejected ==
    ShortCount =>
        /\ PktSize(last.hdr) < 0
        /\ ULess(ETH_MAX_SIZE, PktSize(last.hdr))
        /\ ~ULess(PktSize(last.hdr), ETH_MIN_SIZE)
        /\ last.ret = -1
        /\ last.copies = << >>
        /\ last.bnry_out = -1 /\ bnry = last.bnry_old
        /\ last.page \in DOMAIN ring
        /\ \A i \in 1..Len(log) : log[i][2] # "BNRY" \/ log[i][1] = "in"
        /\ Len(log) = 4 + Len(GetBlock(last.page * DP_PAGESIZE, HDR_SIZE))

\* a packet with byte count 2 and good status was offered to a caller whose
\* buffer holds any frame
C38_Witness ==
    /\ ShortCount
    /\ last.hdr.rbc = 2 /\ last.hdr.status % 2 = 1
    /\ ~last.bufnull /\ last.bufsize >= ETH_MAX_SIZE

\* positions in io of the CR writes that start a remote write, and the
\* card addresses of the data streams written
WritePrograms(io) ==
    { i \in 1..Len(io) : io[i][1] = "out" /\ io[i][2] = "CR" /\ "DM_RW" \in io[i][3] }
WriteStreams(io) == { i \in 1..Len(io) : io[i][1] = "outs" }

\* the card pages a write of size bytes at the page of slot q covers
PagesWritten(q, size) ==
    ne.sendq[q].sendpage .. ((SlotAddr(ne, q) + size - 1) \div DP_PAGESIZE)

\* the remote writes of the call in task: at most one is programmed, for the
\* slot of the call, the data stream follows it and goes to that slot, and
\* the pages it covers are pages of that slot and of no other
OneSlotWritten(t) ==
    LET io == t.io IN
    /\ Cardinality(WritePrograms(io)) <= 1
    /\ Cardinality(WriteStreams(io)) <= 1
    /\ \A i \in WritePrograms(io) :
          /\ t.op # "recv"
          /\ i >= 5 /\ ProgramAt(io, i - 4, "DM_RW", SlotAddr(ne, t.q), t.size)
    /\ \A i \in WriteStreams(io) :
          /\ io[i][3] = [addr |-> SlotAddr(ne, t.q), size |-> t.size]
          /\ \E p \in WritePrograms(io) : p < i
    /\ WritePrograms(io) # {} =>
          /\ PagesWritten(t.q, t.size) \subseteq SlotRange(t.q)
          /\ \A j \in 0..(SENDQ_LEN - 1) :
                j # t.q => PagesWritten(t.q, t.size) \cap SlotRange(j) = {}

\* C39: at most one send slot is written by remote DMA at a time: a send
\* programs one remote write, for its own slot, and streams to it; while it
\* does, ne_interrupt may run between any two of its port accesses and
\* neither programs a remote write nor touches the data port, and the slot
\* of the send does not change.
C39_OneSlotAtATime ==
    [][ /\ OneSlotWritten(task) /\ OneSlotWritten(task')
        /\ HandlerStep =>
              /\ task' = task
              /\ WritePrograms(log') = {} /\ WriteStreams(log') = {}
              /\ \A i \in 1..Len(log') : log'[i][2] # "DATA"
        /\ (task.op = "send" /\ task'.op = "send") =>
              /\ task'.q = task.q
              /\ ne'.sendq[task.q].sendpage = ne.sendq[task.q].sendpage
      ]_vars

\* the handler has run inside a send, after the dummy read and before the
\* data stream to slot 1, while slot 0 still holds a packet
C39_Witness ==
    /\ task.op = "send" /\ task.at = "stream" /\ task.q = 1
    /\ WritePrograms(task.io) # {}
    /\ last.op = "ne_interrupt" /\ "RDC" \notin isr
    /\ ne.sendq[0].filled
    /\ pc = "run"

=============================================================================
